---- MODULE Spec2Model ----
(***************************************************************************)
(* A model of bioweb.py: the Flask handlers (index and the four download   *)
(* routes), the loader's outcome, and the two summarizers                  *)
(* process_bat_data / process_herpetofauna_data.                           *)
(*                                                                         *)
(* DataFrames are sequences of records (one record per row, one field per  *)
(* column).  A DataFrame object lives in `heap` under a reference, so that *)
(* df.copy() and the in-place column assignment df['distance_km'] = ...    *)
(* are distinguishable.  Text is a sequence of tokens (a number literal,   *)
(* ",", " ", or junk), so split / strip / float / int are computed.        *)
(* Distances are metres (integers), bearings are tenths of a degree.       *)
(***************************************************************************)
EXTENDS Integers, Sequences, FiniteSets, TLC

VARIABLES
    bat_data_df,              \* global: reference to the bat frame, or None
    herp_data_df,             \* global: reference to the herp frame, or None
    threat_status_df,         \* global: reference to the threat frame, or None
    initial_data_load_error,  \* global: None or the loader's error text
    heap,                     \* reference -> DataFrame contents (or None)
    pc,                       \* per worker thread: position in its handler
    req,                      \* per worker thread: the request being served
    loc,                      \* per worker thread: the handler's local variables
    response                  \* per worker thread: the response produced

vars == <<bat_data_df, herp_data_df, threat_status_df, initial_data_load_error,
          heap, pc, req, loc, response>>

None == "None"

(***************************************************************************)
(* Bounds of the model.                                                    *)
(***************************************************************************)
MaxBatRows == 2
MaxHerpRows == 2
MaxThreatRows == 2

Threads == {1, 2}

(***************************************************************************)
(* Geography.  Five real points; geodesic() is geopy's WGS-84 distance     *)
(* between them in metres, BearingTenths is the initial bearing that       *)
(* calculate_direction computes (lines 481-492), in tenths of a degree.    *)
(*   1 (-40.3, 175.75)    2 (-40.2, 175.75)    3 (-40.3, 176.2)            *)
(*   4 (-40.8, 175.1)     5 (-40.298, 175.754)                             *)
(* A coordinate is held as the text str() gives the float.                 *)
(***************************************************************************)
SiteLat == <<"-40.3", "-40.2", "-40.3", "-40.8", "-40.298">>
SiteLon == <<"175.75", "175.75", "176.2", "175.1", "175.754">>
Sites == DOMAIN SiteLat

SiteOf(p) == CHOOSE s \in Sites : SiteLat[s] = p[1] /\ SiteLon[s] = p[2]

GeodesicM ==
    << <<     0,  11104,  38259,  78193,    406 >>,
       << 11104,      0,  39864,  86458,  10887 >>,
       << 38259,  39864,      0, 108462,  37920 >>,
       << 78193,  86458, 108462,      0,  78589 >>,
       <<   406,  10887,  37920,  78589,      0 >> >>

BearingTenths ==
    << <<    0,    0,  901, 2244,  568 >>,
       << 1800,    0, 1064, 2193, 1782 >>,
       << 2699, 2861,    0, 2388, 2702 >>,
       <<  449,  397,  595,    0,  449 >>,
       << 2368, 3582,  905, 2245,    0 >> >>

\* geodesic(a, b).km, in metres
geodesic(a, b) == GeodesicM[SiteOf(a)][SiteOf(b)]

\* math.degrees(math.atan2(y, x)), line 490, lies in [-180, 180]; tenths of
\* a degree
InitialBearings == (0 - 1800)..1800

\* bearing = (initial_bearing + 360) % 360, line 493
NormalizeBearing(initial_bearing) == (initial_bearing + 3600) % 3600

\* the chain with each sector's upper bound inclusive and lower exclusive
DirectionOfBearingUpperInclusive(bearing) ==
    IF (3375 < bearing /\ bearing <= 3600) \/ (0 <= bearing /\ bearing <= 225)
    THEN "north"
    ELSE IF 225 < bearing /\ bearing <= 675 THEN "northeast"
    ELSE IF 675 < bearing /\ bearing <= 1125 THEN "east"
    ELSE IF 1125 < bearing /\ bearing <= 1575 THEN "southeast"
    ELSE IF 1575 < bearing /\ bearing <= 2025 THEN "south"
    ELSE IF 2025 < bearing /\ bearing <= 2475 THEN "southwest"
    ELSE IF 2475 < bearing /\ bearing <= 2925 THEN "west"
    ELSE IF 2925 < bearing /\ bearing <= 3375 THEN "northwest"
    ELSE "unknown"

\* the if/elif chain of calculate_direction over the normalized bearing
DirectionOfBearing(bearing) ==
    IF (3375 <= bearing /\ bearing < 3600) \/ (0 <= bearing /\ bearing < 225)
    THEN "north"
    ELSE IF 225 <= bearing /\ bearing < 675 THEN "northeast"
    ELSE IF 675 <= bearing /\ bearing < 1125 THEN "east"
    ELSE IF 1125 <= bearing /\ bearing < 1575 THEN "southeast"
    ELSE IF 1575 <= bearing /\ bearing < 2025 THEN "south"
    ELSE IF 2025 <= bearing /\ bearing < 2475 THEN "southwest"
    ELSE IF 2475 <= bearing /\ bearing < 2925 THEN "west"
    ELSE IF 2925 <= bearing /\ bearing < 3375 THEN "northwest"
    ELSE "unknown"

calculate_direction(user_coords, record_coords) ==
    DirectionOfBearing(BearingTenths[SiteOf(user_coords)][SiteOf(record_coords)])

\* f"{distance_km:.1f}" of a distance held in metres
FormatKm1(m) ==
    LET t == (m + 50) \div 100
    IN  ToString(t \div 10) \o "." \o ToString(t % 10)

(***************************************************************************)
(* Text: str.split(','), str.strip(), float() and int().                   *)
(***************************************************************************)
IntTokens == {"0", "1", "25", "50", "51"}
FloatTokens == IntTokens \cup {SiteLat[s] : s \in Sites} \cup {SiteLon[s] : s \in Sites}

IntVal(tok) == CHOOSE n \in 0..99 : ToString(n) = tok

RECURSIVE Split(_)
Split(text) ==
    IF \A i \in DOMAIN text : text[i] # ","
    THEN <<text>>
    ELSE LET k == CHOOSE i \in DOMAIN text :
                      text[i] = "," /\ \A j \in 1..(i - 1) : text[j] # ","
         IN  <<SubSeq(text, 1, k - 1)>> \o Split(SubSeq(text, k + 1, Len(text)))

RECURSIVE Strip(_)
Strip(text) ==
    IF text = <<>> THEN text
    ELSE IF Head(text) = " " THEN Strip(Tail(text))
    ELSE IF text[Len(text)] = " " THEN Strip(SubSeq(text, 1, Len(text) - 1))
    ELSE text

\* float(s): the value (as its text), or "ValueError"
ParseFloat(text) ==
    LET s == Strip(text)
    IN  IF Len(s) = 1 /\ s[1] \in FloatTokens THEN s[1] ELSE "ValueError"

\* int(s): the value, or the ValueError raised
ParseInt(text) ==
    LET s == Strip(text)
    IN  IF Len(s) = 1 /\ s[1] \in IntTokens
        THEN [exc |-> "none", value |-> IntVal(s[1])]
        ELSE [exc |-> "ValueError"]

\* Lines 800-803 (and the same four lines of each download route): the
\* exception raised, if any, and the parsed values.
ParseQuery(form) ==
    IF "coords" \notin DOMAIN form THEN [exc |-> "KeyError"]
    ELSE LET parts == Split(form.coords)
         IN  IF Len(parts) # 2 THEN [exc |-> "ValueError"]
             ELSE IF ParseFloat(parts[1]) = "ValueError" \/ ParseFloat(parts[2]) = "ValueError"
                  THEN [exc |-> "ValueError"]
             ELSE IF "radius" \notin DOMAIN form THEN [exc |-> "KeyError"]
             ELSE IF ParseInt(form.radius).exc # "none" THEN [exc |-> "ValueError"]
             ELSE [exc |-> "none",
                   user_coords |-> <<ParseFloat(parts[1]), ParseFloat(parts[2])>>,
                   radius_km |-> ParseInt(form.radius).value]

(***************************************************************************)
(* DataFrame helpers.                                                      *)
(***************************************************************************)
\* the frame with the column distance_km that apply computes row by row
WithDistance(df, user_coords) ==
    [i \in DOMAIN df |->
        [distance_km |-> geodesic(user_coords, <<df[i].Latitude, df[i].Longitude>>)]
        @@ df[i]]

\* df['distance_km'] = df.apply(geodesic(user_coords, (Latitude, Longitude)).km,
\* axis=1).  On a frame without rows apply tries the function on a row of
\* missing values, geodesic raises on it, and apply returns a copy of the
\* frame; assigning that frame to the one column raises ValueError.
AnnotateDistance(df, user_coords) ==
    IF df = <<>>
    THEN [exc |-> "ValueError", df |-> <<>>]
    ELSE [exc |-> "none", df |-> WithDistance(df, user_coords)]

\* subset_df['distance_km'].idxmin(): the first row attaining the minimum
IdxMin(df) ==
    CHOOSE i \in DOMAIN df :
        /\ \A j \in DOMAIN df : df[i].distance_km <= df[j].distance_km
        /\ \A j \in 1..(i - 1) : df[j].distance_km > df[i].distance_km

\* 1000 * radius_km: the radius in the unit of distance_km
RadiusM(radius_km) == 1000 * radius_km

\* the radius filter with the comparison turned round
InRadiusFlipped(row, radius_km) == row.distance_km >= RadiusM(radius_km)

InRadius(row, radius_km) == row.distance_km <= RadiusM(radius_km)

start_date_5y == 20180101
start_date_10y == 20130101
end_date_2023 == 20231231

\* the window read as the dates before its start
InWindowBefore(row, start) == row.date < start

InWindow(row, start) == row.date >= start /\ row.date <= end_date_2023

(***************************************************************************)
(* process_bat_data, lines 518-616, over a frame that already carries      *)
(* distance_km (line 516 is AnnotateDistance).                             *)
(***************************************************************************)
WithSpecies(df, species) ==
    [i \in DOMAIN df |-> [df[i] EXCEPT !.batspecies = species]]

\* the expansion without the second copy of the dual detections
ExpandBothOnce(df) ==
    LET IsBoth(r) == r.batspecies = "Both species detected"
        NotBoth(r) == ~IsBoth(r)
    IN  SelectSeq(df, NotBoth)
           \o WithSpecies(SelectSeq(df, IsBoth), "Chalinolobus tuberculatus")

\* lines 519-531
ExpandBoth(df) ==
    LET IsBoth(r) == r.batspecies = "Both species detected"
        NotBoth(r) == ~IsBoth(r)
        both_df == SelectSeq(df, IsBoth)
    IN  IF both_df # <<>>
        THEN SelectSeq(df, NotBoth)
               \o WithSpecies(both_df, "Chalinolobus tuberculatus")
               \o WithSpecies(both_df, "Mystacina tuberculata")
        ELSE df

\* the counts with the roost sub-counts taken over every label
BatCountsRoostAnyLabel(df, radius_km) ==
    LET calc_df_for_counts == ExpandBoth(df)
        Near(r) == InRadius(r, radius_km)
        radius_df == SelectSeq(calc_df_for_counts, Near)
        Positive(r) == r.batspecies # "No bat species detected"
        Chal(r) == r.batspecies = "Chalinolobus tuberculatus"
        Myst(r) == r.batspecies = "Mystacina tuberculata"
        Unk(r) == r.batspecies = "Unknown bat species"
        ChalRoost(r) == r.roost = 1
        MystRoost(r) == r.roost = 1
    IN  [total_events |-> Len(radius_df),
         positive_detections |-> Len(SelectSeq(radius_df, Positive)),
         chalinolobus_tuberculatus |-> Len(SelectSeq(radius_df, Chal)),
         mystacina_tuberculata |-> Len(SelectSeq(radius_df, Myst)),
         unknown_bat_species |-> Len(SelectSeq(radius_df, Unk)),
         chalinolobus_tuberculatus_roosts |-> Len(SelectSeq(radius_df, ChalRoost)),
         mystacina_tuberculata_roosts |-> Len(SelectSeq(radius_df, MystRoost))]

\* lines 533-543
BatCounts(df, radius_km) ==
    LET calc_df_for_counts == ExpandBoth(df)
        Near(r) == InRadius(r, radius_km)
        radius_df == SelectSeq(calc_df_for_counts, Near)
        Positive(r) == r.batspecies # "No bat species detected"
        Chal(r) == r.batspecies = "Chalinolobus tuberculatus"
        Myst(r) == r.batspecies = "Mystacina tuberculata"
        Unk(r) == r.batspecies = "Unknown bat species"
        ChalRoost(r) == Chal(r) /\ r.roost = 1
        MystRoost(r) == Myst(r) /\ r.roost = 1
    IN  [total_events |-> Len(radius_df),
         positive_detections |-> Len(SelectSeq(radius_df, Positive)),
         chalinolobus_tuberculatus |-> Len(SelectSeq(radius_df, Chal)),
         mystacina_tuberculata |-> Len(SelectSeq(radius_df, Myst)),
         unknown_bat_species |-> Len(SelectSeq(radius_df, Unk)),
         chalinolobus_tuberculatus_roosts |-> Len(SelectSeq(radius_df, ChalRoost)),
         mystacina_tuberculata_roosts |-> Len(SelectSeq(radius_df, MystRoost))]

\* the helper with the roost filter applied to the text only
get_nearest_info_unfiltered(subset_df, is_roost, date_range_str, user_coords) ==
    IF subset_df = <<>>
    THEN "No " \o (IF is_roost THEN "roosts" ELSE "records") \o " found" \o date_range_str
    ELSE LET nearest_item == subset_df[IdxMin(subset_df)]
             direction == calculate_direction(user_coords,
                              <<nearest_item.Latitude, nearest_item.Longitude>>)
         IN  FormatKm1(nearest_item.distance_km) \o " km " \o direction

\* lines 558-568
get_nearest_info(subset_df, is_roost, date_range_str, user_coords) ==
    LET IsRoost(r) == r.roost = 1
        sub == IF is_roost THEN SelectSeq(subset_df, IsRoost) ELSE subset_df
    IN  IF sub = <<>>
        THEN "No " \o (IF is_roost THEN "roosts" ELSE "records") \o " found"
                \o date_range_str
        ELSE LET nearest_item == sub[IdxMin(sub)]
                 direction == calculate_direction(user_coords,
                                  <<nearest_item.Latitude, nearest_item.Longitude>>)
             IN  FormatKm1(nearest_item.distance_km) \o " km " \o direction

\* the per-species lookups searching the expanded counting view
SpeciesFullDfExpanded(df, species) ==
    LET Is(r) == r.batspecies = species
    IN  SelectSeq(ExpandBoth(df), Is)

\* line 555: the frame the per-species lookups search
SpeciesFullDf(df, species) ==
    LET Is(r) == r.batspecies = species
    IN  SelectSeq(df, Is)

\* lines 554-597, one row of the summary table
BatSummaryRow(df, species, user_coords) ==
    LET species_full_df == SpeciesFullDf(df, species)
        In5(r) == InWindow(r, start_date_5y)
        In10(r) == InWindow(r, start_date_10y)
        past_5_years_df == SelectSeq(species_full_df, In5)
        past_10_years_df == SelectSeq(species_full_df, In10)
    IN  [Species |-> species,
         all_time |-> get_nearest_info(species_full_df, FALSE, "", user_coords),
         all_time_roost |-> get_nearest_info(species_full_df, TRUE, "", user_coords),
         past_5y |-> get_nearest_info(past_5_years_df, FALSE, " for 2018-2023", user_coords),
         past_5y_roost |-> get_nearest_info(past_5_years_df, TRUE, " for 2018-2023", user_coords),
         past_10y |-> get_nearest_info(past_10_years_df, FALSE, " for 2013-2023", user_coords),
         past_10y_roost |-> get_nearest_info(past_10_years_df, TRUE, " for 2013-2023", user_coords)]

\* the list with the unknown-species row added whenever the count exists
SpeciesListAlwaysUnknown(bat_counts) ==
    <<"Chalinolobus tuberculatus", "Mystacina tuberculata">>
       \o (IF bat_counts.unknown_bat_species >= 0 THEN <<"Unknown bat species">> ELSE <<>>)

\* lines 546-548
SpeciesListForTable(bat_counts) ==
    <<"Chalinolobus tuberculatus", "Mystacina tuberculata">>
       \o (IF bat_counts.unknown_bat_species > 0 THEN <<"Unknown bat species">> ELSE <<>>)

\* lines 518-616
process_bat_data(df, user_coords, radius_km) ==
    LET bat_counts == BatCounts(df, radius_km)
        species_list_for_table == SpeciesListForTable(bat_counts)
    IN  [counts |-> bat_counts,
         summary_table |-> [k \in DOMAIN species_list_for_table |->
                               BatSummaryRow(df, species_list_for_table[k], user_coords)]]

(***************************************************************************)
(* process_herpetofauna_data, lines 623-784, over a frame that already     *)
(* carries distance_km (line 621 is AnnotateDistance).                     *)
(***************************************************************************)
\* Scientific names the model uses, in ascending str order (the order that
\* sorted() and sort_values() give them).
HerpNames == <<"Leiopelma archeyi", "Naultinus elegans", "Oligosoma aeneum">>

NameRank(name) == CHOOSE k \in DOMAIN HerpNames : HerpNames[k] = name

start_date_5y_herp == 20180101
start_date_10y_herp == 20130101
end_date_herp == 20231231

\* lines 635-641
taxa_order == <<"Amphibian", "Reptile", "unknown">>
category_order == <<"Threatened", "At Risk", "Not Threatened", "Non-resident Native",
                    "Introduced and Naturalised", "Extinct", "unknown">>
status_order == <<"Nationally Critical", "Nationally Endangered", "Nationally Vulnerable",
                  "Nationally Increasing", "Declining", "Relict", "Uncommon", "Recovering",
                  "Migrant", "Vagrant", "Coloniser", "Introduced and Naturalised",
                  "Extinct", "unknown">>

NaN == "NaN"

InSeq(x, seq) == \E k \in DOMAIN seq : seq[k] = x

\* pd.Categorical(values, categories=order): a value outside the categories
\* becomes NaN
Categorical(value, order) == IF InSeq(value, order) THEN value ELSE NaN

\* the code of a categorical value; NaN sorts last (sort_values, na_position='last')
CatCode(value, order) ==
    IF InSeq(value, order) THEN CHOOSE k \in DOMAIN order : order[k] = value
    ELSE Len(order) + 1

\* strftime("%d/%m/%Y") of a date held as yyyymmdd
Pad2(n) == IF n < 10 THEN "0" \o ToString(n) ELSE ToString(n)

FormatDate(date) ==
    Pad2(date % 100) \o "/" \o Pad2((date \div 100) % 100) \o "/" \o ToString(date \div 10000)

\* sorted(radius_df['scientific_name'].unique()), line 626
UniqueSpeciesSorted(radius_df) ==
    LET Present(name) == \E i \in DOMAIN radius_df : radius_df[i].scientific_name = name
    IN  SelectSeq(HerpNames, Present)

\* value_counts(), line 674: one entry per observation type, most frequent
\* first, equal counts in order of first appearance
RECURSIVE FirstSeen(_)
FirstSeen(types) ==
    IF types = <<>> THEN <<>>
    ELSE LET prefix == FirstSeen(SubSeq(types, 1, Len(types) - 1))
             last == types[Len(types)]
         IN  IF InSeq(last, prefix) THEN prefix ELSE Append(prefix, last)

CountOf(df, type) == Cardinality({i \in DOMAIN df : df[i].sightingty = type})

RECURSIVE SortByCountDesc(_)
SortByCountDesc(entries) ==
    IF entries = <<>> THEN <<>>
    ELSE LET k == CHOOSE i \in DOMAIN entries :
                      /\ \A j \in DOMAIN entries : entries[j].count <= entries[i].count
                      /\ \A j \in 1..(i - 1) : entries[j].count < entries[i].count
             Rest(e) == e # entries[k]
         IN  <<entries[k]>> \o SortByCountDesc(SelectSeq(entries, Rest))

value_counts(df) ==
    LET types == FirstSeen([i \in DOMAIN df |-> df[i].sightingty])
    IN  SortByCountDesc([k \in DOMAIN types |->
                            [sighting_type |-> types[k], count |-> CountOf(df, types[k])]])

\* ", ".join(f"{sighting_type} ({count})" ...), lines 681-682 and 686
RECURSIVE JoinTypes(_)
JoinTypes(entries) ==
    IF entries = <<>> THEN ""
    ELSE LET e == entries[1]
             part == e.sighting_type \o " (" \o ToString(e.count) \o ")"
         IN  IF Len(entries) = 1 THEN part
             ELSE part \o ", " \o JoinTypes(Tail(entries))

\* lines 706-712
get_herp_nearest_info(subset_df, date_range_str, user_coords) ==
    IF subset_df = <<>>
    THEN "No records found" \o date_range_str
    ELSE LET nearest_item == subset_df[IdxMin(subset_df)]
             direction == calculate_direction(user_coords,
                              <<nearest_item.Latitude, nearest_item.Longitude>>)
         IN  FormatKm1(nearest_item.distance_km) \o " km " \o direction

MaxDate(df) ==
    LET i == CHOOSE i \in DOMAIN df : \A j \in DOMAIN df : df[j].date <= df[i].date
    IN  df[i].date

\* the join with the display string of an absent species built like a
\* matched one's from the raw defaults
ThreatJoinNoDefault(threat_df, species_scientific) ==
    LET Match(r) == r.Current_Species_Name = species_scientific
        threat_info == SelectSeq(threat_df, Match)
    IN  IF threat_info # <<>>
        THEN [taxa_group |-> threat_info[1].Taxa,
              threat_status_display |->
                  IF threat_info[1].Category = threat_info[1].Status
                  THEN threat_info[1].Category
                  ELSE threat_info[1].Category \o " - " \o threat_info[1].Status,
              category_for_sort |-> threat_info[1].Category,
              status_for_sort |-> threat_info[1].Status]
        ELSE [taxa_group |-> "unknown",
              threat_status_display |-> "Unknown",
              category_for_sort |-> "Unknown",
              status_for_sort |-> "Unknown"]

\* the join taking the last matching register entry
ThreatJoinLastMatch(threat_df, species_scientific) ==
    LET Match(r) == r.Current_Species_Name = species_scientific
        threat_info == SelectSeq(threat_df, Match)
    IN  IF threat_info # <<>>
        THEN LET threat_row == threat_info[Len(threat_info)]
                 category == threat_row.Category
                 status == threat_row.Status
             IN  [taxa_group |-> threat_row.Taxa,
                  threat_status_display |->
                      IF category = status THEN category
                      ELSE category \o " - " \o status,
                  category_for_sort |-> category,
                  status_for_sort |-> status]
        ELSE [taxa_group |-> "unknown",
              threat_status_display |-> "unknown",
              category_for_sort |-> "unknown",
              status_for_sort |-> "unknown"]

\* lines 650-671: the threat-status join for one species
ThreatJoin(threat_df, species_scientific) ==
    LET Match(r) == r.Current_Species_Name = species_scientific
        threat_info == SelectSeq(threat_df, Match)
    IN  IF threat_info # <<>>
        THEN LET threat_row == threat_info[1]
                 category == threat_row.Category
                 status == threat_row.Status
             IN  [taxa_group |-> threat_row.Taxa,
                  threat_status_display |->
                      IF category = status THEN category
                      ELSE category \o " - " \o status,
                  category_for_sort |-> category,
                  status_for_sort |-> status]
        ELSE [taxa_group |-> "unknown",
              threat_status_display |-> "unknown",
              category_for_sort |-> "unknown",
              status_for_sort |-> "unknown"]

\* the row with the two date-window pools taken from the records within the
\* radius
HerpSpeciesRowRadiusPools(df, radius_df, threat_df, species_scientific, user_coords) ==
    LET Is(r) == r.scientific_name = species_scientific
        species_in_radius_df == SelectSeq(radius_df, Is)
        total == Len(species_in_radius_df)
        join == ThreatJoin(threat_df, species_scientific)
        observation_types == value_counts(species_in_radius_df)
        nearest_record_in_radius == species_in_radius_df[IdxMin(species_in_radius_df)]
        direction_all_time ==
            calculate_direction(user_coords, <<nearest_record_in_radius.Latitude,
                                               nearest_record_in_radius.Longitude>>)
        species_full_df == SelectSeq(radius_df, Is)
        In5(r) == r.date >= start_date_5y_herp /\ r.date <= end_date_herp
        In10(r) == r.date >= start_date_10y_herp /\ r.date <= end_date_herp
    IN  [species |-> species_scientific,
         common_name |-> species_in_radius_df[1].common_name,
         taxa_group |-> join.taxa_group,
         threat_status_display |-> join.threat_status_display,
         category_for_sort |-> join.category_for_sort,
         status_for_sort |-> join.status_for_sort,
         observation_type_summary |->
             IF observation_types = <<>>
             THEN "<b>Total</b> (" \o ToString(total) \o ")"
             ELSE JoinTypes(observation_types) \o "<br>&nbsp;<br><b>Total</b> ("
                     \o ToString(total) \o ")",
         observation_type_csv_summary |-> JoinTypes(observation_types),
         total_observations_for_species |-> total,
         most_recent_sighting |-> FormatDate(MaxDate(species_in_radius_df)),
         all_time |-> FormatKm1(nearest_record_in_radius.distance_km) \o " km "
                         \o direction_all_time,
         past_5_years |-> get_herp_nearest_info(SelectSeq(species_full_df, In5),
                                                " for 2018-2023", user_coords),
         past_10_years |-> get_herp_nearest_info(SelectSeq(species_full_df, In10),
                                                 " for 2013-2023", user_coords)]

\* lines 643-738: the row appended to herp_results for one species
HerpSpeciesRow(df, radius_df, threat_df, species_scientific, user_coords) ==
    LET Is(r) == r.scientific_name = species_scientific
        species_in_radius_df == SelectSeq(radius_df, Is)
        total == Len(species_in_radius_df)
        join == ThreatJoin(threat_df, species_scientific)
        observation_types == value_counts(species_in_radius_df)
        nearest_record_in_radius == species_in_radius_df[IdxMin(species_in_radius_df)]
        direction_all_time ==
            calculate_direction(user_coords, <<nearest_record_in_radius.Latitude,
                                               nearest_record_in_radius.Longitude>>)
        species_full_df == SelectSeq(df, Is)
        In5(r) == r.date >= start_date_5y_herp /\ r.date <= end_date_herp
        In10(r) == r.date >= start_date_10y_herp /\ r.date <= end_date_herp
    IN  [species |-> species_scientific,
         common_name |-> species_in_radius_df[1].common_name,
         taxa_group |-> join.taxa_group,
         threat_status_display |-> join.threat_status_display,
         category_for_sort |-> join.category_for_sort,
         status_for_sort |-> join.status_for_sort,
         observation_type_summary |->
             IF observation_types = <<>>
             THEN "<b>Total</b> (" \o ToString(total) \o ")"
             ELSE JoinTypes(observation_types) \o "<br>&nbsp;<br><b>Total</b> ("
                     \o ToString(total) \o ")",
         observation_type_csv_summary |-> JoinTypes(observation_types),
         total_observations_for_species |-> total,
         most_recent_sighting |-> FormatDate(MaxDate(species_in_radius_df)),
         all_time |-> FormatKm1(nearest_record_in_radius.distance_km) \o " km "
                         \o direction_all_time,
         past_5_years |-> get_herp_nearest_info(SelectSeq(species_full_df, In5),
                                                " for 2018-2023", user_coords),
         past_10_years |-> get_herp_nearest_info(SelectSeq(species_full_df, In10),
                                                 " for 2013-2023", user_coords)]

\* a sort by scientific name alone
HerpSortKeyByName(row) == <<NameRank(row.species)>>

\* the sort key of sort_values(by=[taxa_group, category_for_sort,
\* status_for_sort, species]), lines 749-757
HerpSortKey(row) ==
    <<CatCode(row.taxa_group, taxa_order),
      CatCode(row.category_for_sort, category_order),
      CatCode(row.status_for_sort, status_order),
      NameRank(row.species)>>

RECURSIVE LexLess(_, _)
LexLess(a, b) ==
    IF a = <<>> THEN FALSE
    ELSE IF a[1] # b[1] THEN a[1] < b[1]
    ELSE LexLess(Tail(a), Tail(b))

\* DataFrame.sort_values(by=[...]): a stable sort of the rows, ascending in
\* the tuple of their sort columns; each entry pairs a row with that tuple
RECURSIVE SortEntries(_)
SortEntries(entries) ==
    IF entries = <<>> THEN <<>>
    ELSE LET k == CHOOSE i \in DOMAIN entries :
                      /\ \A j \in DOMAIN entries : ~LexLess(entries[j].key, entries[i].key)
                      /\ \A j \in 1..(i - 1) : LexLess(entries[i].key, entries[j].key)
         IN  <<entries[k]>> \o SortEntries(SubSeq(entries, 1, k - 1)
                                             \o SubSeq(entries, k + 1, Len(entries)))

SortValues(entries) ==
    LET sorted == SortEntries(entries)
    IN  [k \in DOMAIN sorted |-> sorted[k].row]

\* lines 749-751 as seen by to_dict (line 762): the three sort columns hold
\* categorical values
AsCategorical(row) ==
    [row EXCEPT !.taxa_group = Categorical(@, taxa_order),
                !.category_for_sort = Categorical(@, category_order),
                !.status_for_sort = Categorical(@, status_order)]

\* lines 623-784
process_herpetofauna_data(df, threat_df, user_coords, radius_km) ==
    LET Near(r) == InRadius(r, radius_km)
        radius_df == SelectSeq(df, Near)
        unique_species_in_radius == UniqueSpeciesSorted(radius_df)
        unique_species_count == Len(unique_species_in_radius)
        herp_results == [k \in DOMAIN unique_species_in_radius |->
                            HerpSpeciesRow(df, radius_df, threat_df,
                                           unique_species_in_radius[k], user_coords)]
    IN  IF herp_results = <<>>
        THEN [message |-> "No herpetofauna records found within "
                             \o ToString(radius_km) \o " km.",
              unique_species_count |-> 0]
        ELSE [results |-> SortValues([k \in DOMAIN herp_results |->
                                         [key |-> HerpSortKey(herp_results[k]),
                                          row |-> AsCategorical(herp_results[k])]]),
              unique_species_count |-> unique_species_count]

(***************************************************************************)
(* The raw-occurrence exports, download_bat_data lines 851-897 and         *)
(* download_herp_data lines 924-960.                                       *)
(***************************************************************************)
bat_species_order == <<"Both species detected", "Chalinolobus tuberculatus",
                       "Mystacina tuberculata", "Unknown bat species",
                       "No bat species detected">>

\* Series.map({0: 'False', 1: 'True'}): a value that is no key becomes NaN
MapFlag(v) == IF v = 0 THEN "False" ELSE IF v = 1 THEN "True" ELSE NaN

\* f"{row['Latitude']}, {row['Longitude']}"
LatLongCombined(row) == row.Latitude \o ", " \o row.Longitude

\* lines 855-897, over the frame annotated at lines 851-854
BatExport(df, user_coords, radius_km) ==
    LET Near(r) == InRadius(r, radius_km)
        filtered_df == SelectSeq(df, Near)
        Out(r) == [batspecies |-> Categorical(r.batspecies, bat_species_order),
                   roost |-> MapFlag(r.roost),
                   date |-> r.date,
                   Longitude |-> r.Longitude,
                   Latitude |-> r.Latitude,
                   Lat_Long_Combined |-> LatLongCombined(r),
                   distance_km |-> r.distance_km,
                   direction |-> calculate_direction(user_coords,
                                                     <<r.Latitude, r.Longitude>>)]
        Key(r) == <<CatCode(r.batspecies, bat_species_order), r.distance_km>>
    IN   SortValues([i \in DOMAIN filtered_df |->
                       [key |-> Key(filtered_df[i]), row |-> Out(filtered_df[i])]])

\* lines 928-960, over the frame annotated at lines 924-927
HerpExport(df, user_coords, radius_km) ==
    LET Near(r) == InRadius(r, radius_km)
        filtered_df == SelectSeq(df, Near)
        Out(r) == [scientific_name |-> r.scientific_name,
                   common_name |-> r.common_name,
                   recordveri |-> MapFlag(r.recordveri),
                   date |-> r.date,
                   sightingty |-> r.sightingty,
                   Longitude |-> r.Longitude,
                   Latitude |-> r.Latitude,
                   Lat_Long_Combined |-> LatLongCombined(r),
                   distance_km |-> r.distance_km,
                   direction |-> calculate_direction(user_coords,
                                                     <<r.Latitude, r.Longitude>>)]
        Key(r) == <<NameRank(r.scientific_name), r.distance_km>>
    IN  SortValues([i \in DOMAIN filtered_df |->
                       [key |-> Key(filtered_df[i]), row |-> Out(filtered_df[i])]])

\* lines 1026-1041: the rows of the herp summary CSV
HerpSummaryCsv(herp_results_list) ==
    [k \in DOMAIN herp_results_list |->
        LET item == herp_results_list[k]
        IN  [Taxa_Group |-> item.taxa_group,
             Species |-> item.species,
             Common_Name |-> item.common_name,
             Threat_Status |-> item.threat_status_display,
             Observation_Type_Summary |-> item.observation_type_csv_summary,
             Total_Observations |-> item.total_observations_for_species,
             Most_recent_sighting |-> item.most_recent_sighting,
             Nearest_Record_all_time |-> item.all_time,
             Nearest_Record_2013_to_2023 |-> item.past_10_years,
             Nearest_Record_2018_to_2023 |-> item.past_5_years]]

(***************************************************************************)
(* The heap of DataFrame objects.                                          *)
(***************************************************************************)
GBat == "bat_data"
GHerp == "herp_data"
GThreat == "threat_status"

LocalRef(t, kind) == kind \o "_copy_" \o ToString(t)

Refs == {GBat, GHerp, GThreat} \cup {LocalRef(t, kind) : t \in Threads, kind \in {"bat", "herp"}}

\* no copy: the handler works on the stored frame itself
FrameShared(t, kind, src) == src

\* bat_data_df.copy() / herp_data_df.copy() (lines 811, 812, 851, 924, 988,
\* 1020): the reference of the new object the handler works on
FrameCopy(t, kind, src) == LocalRef(t, kind)

(***************************************************************************)
(* Responses.                                                              *)
(***************************************************************************)
NoResponse == [kind |-> "none"]
NoResults == <<>>

\* render_html_page(bat_results, herp_results, submitted_coords,
\* submitted_radius, error), with its defaults (line 113)
\* CSS_CLASSES_FOR_THREAT_STATUS.get(category, ''), lines 119-126 and 411
CSS_CLASSES_FOR_THREAT_STATUS(category) ==
    IF category = "Threatened" THEN "threatened-bg"
    ELSE IF category = "At Risk" THEN "at-risk-bg"
    ELSE IF category = "Not Threatened" THEN "not-threatened-bg"
    ELSE IF category = "Non-resident Native" THEN "non-resident-native-bg"
    ELSE IF category = "Extinct" THEN "extinct-text-color"
    ELSE IF category = "Unknown" THEN "unknown-text-color"
    ELSE ""

\* the class chosen from the text shown in the cell
threat_status_cell_class_of_display(item) ==
    CSS_CLASSES_FOR_THREAT_STATUS(item.threat_status_display)

\* lines 410-417: the class of the threat-status cell of one herp row
threat_status_cell_class(item) ==
    LET category_for_class == item.category_for_sort
    IN  IF category_for_class = "Introduced and Naturalised" THEN ""
        ELSE IF category_for_class = "unknown"
        THEN CSS_CLASSES_FOR_THREAT_STATUS("Unknown")
        ELSE CSS_CLASSES_FOR_THREAT_STATUS(category_for_class)

\* line 420
cell_class_attr(item) ==
    IF threat_status_cell_class(item) # ""
    THEN " class=\"threat-status-cell " \o threat_status_cell_class(item) \o "\""
    ELSE " class=\"threat-status-cell\""

\* lines 381-420: the class attribute of the threat-status cell of every row
\* of the herp table, when the page has that table
ThreatStatusCells(herp_results) ==
    IF herp_results = NoResults \/ "results" \notin DOMAIN herp_results THEN <<>>
    ELSE [k \in DOMAIN herp_results.results |-> cell_class_attr(herp_results.results[k])]

Page(error, submitted_coords, submitted_radius, bat_results, herp_results) ==
    [kind |-> "page", error |-> error,
     submitted_coords |-> submitted_coords, submitted_radius |-> submitted_radius,
     bat_results |-> bat_results, herp_results |-> herp_results,
     threat_status_cells |-> ThreatStatusCells(herp_results)]

ErrorPage(error, submitted_coords, submitted_radius) ==
    Page(error, submitted_coords, submitted_radius, NoResults, NoResults)

Text(status, body) == [kind |-> "text", status |-> status, body |-> body]

Csv(name, rows) == [kind |-> "csv", name |-> name, rows |-> rows]

\* an exception that leaves the view function (Flask answers 500)
Unhandled(exc) == [kind |-> "unhandled", exc |-> exc]

DataFilesError ==
    "Data files could not be loaded. Please ensure all required CSVs are in the same directory as the executable."
RadiusError == "Radius must be between 1 and 50 km."
InvalidCoordsError ==
    "Invalid coordinates. Please use the format 'latitude, longitude' e.g., -40.298, 175.754"
UnexpectedError == "An unexpected error occurred"

(***************************************************************************)
(* The handlers' entry: the data-unavailable guards, the parse of the      *)
(* form, the range check of index and the except clauses.                  *)
(***************************************************************************)
IsIndex(route) == route \in {"index_get", "index_post"}

\* the guards without the test of the loader's error text
DatasetMissing(route) ==
    IF IsIndex(route)
    THEN bat_data_df = None \/ herp_data_df = None \/ threat_status_df = None
    ELSE IF route \in {"download_bat_data", "download_bat_summary_data"}
    THEN bat_data_df = None
    ELSE IF route = "download_herp_data"
    THEN herp_data_df = None
    ELSE herp_data_df = None \/ threat_status_df = None

\* lines 791-794 (index), 842, 915, 978, 1010 (downloads)
DataUnavailable(route) ==
    IF IsIndex(route)
    THEN initial_data_load_error # None
            \/ bat_data_df = None \/ herp_data_df = None \/ threat_status_df = None
    ELSE IF route \in {"download_bat_data", "download_bat_summary_data"}
    THEN initial_data_load_error # None \/ bat_data_df = None
    ELSE IF route = "download_herp_data"
    THEN initial_data_load_error # None \/ herp_data_df = None
    ELSE initial_data_load_error # None \/ herp_data_df = None \/ threat_status_df = None

\* lines 792, 796, 843, 916, 979, 1011
DataUnavailableResponse(route) ==
    IF IsIndex(route)
    THEN ErrorPage(IF initial_data_load_error # None THEN initial_data_load_error
                   ELSE DataFilesError, <<>>, 25)
    ELSE Text(500, "Error: Data not loaded. "
                      \o (IF initial_data_load_error # None THEN initial_data_load_error
                          ELSE ""))

\* line 805; the download routes have no such check
RadiusRejected(route, radius_km) ==
    route = "index_post" /\ ~(1 <= radius_km /\ radius_km <= 50)

\* lines 828-836: both except clauses of index build the page from
\* request.form.get('coords', "") and int(request.form.get('radius', 25))
IndexExcept(form, exc) ==
    LET coords == IF "coords" \in DOMAIN form THEN form.coords ELSE <<>>
        radius == IF "radius" \in DOMAIN form THEN ParseInt(form.radius)
                  ELSE [exc |-> "none", value |-> 25]
    IN  IF radius.exc # "none" THEN Unhandled(radius.exc)
        ELSE ErrorPage(IF exc = "ValueError" THEN InvalidCoordsError ELSE UnexpectedError,
                       coords, radius.value)

\* lines 909-911, 972-974, 1004-1006, 1073-1075
DownloadExcept(route) == Text(500, "An error occurred during " \o route)

\* the except clause that answers an exception raised after the parse: lines
\* 828-836 (index), 909-911, 972-974, 1004-1006, 1073-1075 (downloads)
HandlerExcept(r, exc) ==
    IF IsIndex(r.route) THEN IndexExcept(r.form, exc) ELSE DownloadExcept(r.route)

FirstStep(route) ==
    IF route \in {"download_herp_data", "download_herp_summary_data"}
    THEN "herp_annotate" ELSE "bat_annotate"

\* What the handler does up to its first use of a dataset: the response it
\* returns, or the locals it goes on with.
Entry(r) ==
    LET q == ParseQuery(r.form)
    IN  IF DataUnavailable(r.route)
        THEN [pc |-> "done", loc |-> <<>>, response |-> DataUnavailableResponse(r.route)]
        ELSE IF r.route = "index_get"
        THEN [pc |-> "done", loc |-> <<>>,
              response |-> Page(None, <<>>, 25, NoResults, NoResults)]
        ELSE IF q.exc # "none"
        THEN [pc |-> "done", loc |-> <<>>,
              response |-> IF IsIndex(r.route) THEN IndexExcept(r.form, q.exc)
                           ELSE DownloadExcept(r.route)]
        ELSE IF RadiusRejected(r.route, q.radius_km)
        THEN [pc |-> "done", loc |-> <<>>,
              response |-> ErrorPage(RadiusError, r.form.coords, q.radius_km)]
        ELSE [pc |-> FirstStep(r.route),
              loc |-> [user_coords |-> q.user_coords, radius_km |-> q.radius_km],
              response |-> NoResponse]

(***************************************************************************)
(* Actions: one per step of a worker thread serving a request.             *)
(***************************************************************************)
Globals == <<bat_data_df, herp_data_df, threat_status_df, initial_data_load_error>>

NoRequest == [route |-> "none", form |-> <<>>]

\* A request arrives at an idle worker.
Receive(t, r) ==
    /\ pc[t] = "idle"
    /\ pc' = [pc EXCEPT ![t] = "start"]
    /\ req' = [req EXCEPT ![t] = r]
    /\ UNCHANGED <<Globals, heap, loc, response>>

Start(t) ==
    /\ pc[t] = "start"
    /\ LET e == Entry(req[t])
       IN  /\ pc' = [pc EXCEPT ![t] = e.pc]
           /\ loc' = [loc EXCEPT ![t] = e.loc]
           /\ response' = [response EXCEPT ![t] = e.response]
    /\ UNCHANGED <<Globals, heap, req>>

\* bat_data_df.copy() and line 516 (index, bat summary) or lines 851-854
BatAnnotate(t) ==
    /\ pc[t] = "bat_annotate"
    /\ LET df == FrameCopy(t, "bat", bat_data_df)
           annotated == AnnotateDistance(heap[bat_data_df], loc[t].user_coords)
       IN  IF annotated.exc # "none"
           THEN /\ response' = [response EXCEPT ![t] = HandlerExcept(req[t], annotated.exc)]
                /\ pc' = [pc EXCEPT ![t] = "done"]
                /\ UNCHANGED <<heap, loc>>
           ELSE /\ heap' = [heap EXCEPT ![df] = annotated.df]
                /\ loc' = [loc EXCEPT ![t] = [df |-> df] @@ loc[t]]
                /\ pc' = [pc EXCEPT ![t] = IF req[t].route = "download_bat_data"
                                           THEN "bat_export" ELSE "bat_summarize"]
                /\ UNCHANGED response
    /\ UNCHANGED <<Globals, req>>

\* lines 518-616, then back in index (line 812 follows) or in
\* download_bat_summary_data (lines 989-1003)
BatSummarize(t) ==
    /\ pc[t] = "bat_summarize"
    /\ LET bat_results == process_bat_data(heap[loc[t].df], loc[t].user_coords,
                                           loc[t].radius_km)
       IN  IF req[t].route = "index_post"
           THEN /\ loc' = [loc EXCEPT ![t] = [bat_results |-> bat_results] @@ loc[t]]
                /\ pc' = [pc EXCEPT ![t] = "herp_annotate"]
                /\ UNCHANGED response
           ELSE /\ response' = [response EXCEPT ![t] =
                                   Csv("bat_summary_data", bat_results.summary_table)]
                /\ pc' = [pc EXCEPT ![t] = "done"]
                /\ UNCHANGED loc
    /\ UNCHANGED <<Globals, heap, req>>

\* download_bat_data, lines 855-908
BatExportStep(t) ==
    /\ pc[t] = "bat_export"
    /\ response' = [response EXCEPT ![t] =
                       Csv("bat_data_occurrences",
                           BatExport(heap[loc[t].df], loc[t].user_coords,
                                     loc[t].radius_km))]
    /\ pc' = [pc EXCEPT ![t] = "done"]
    /\ UNCHANGED <<Globals, heap, req, loc>>

\* herp_data_df.copy() and line 621 (index, herp summary) or lines 924-927
HerpAnnotate(t) ==
    /\ pc[t] = "herp_annotate"
    /\ LET df == FrameCopy(t, "herp", herp_data_df)
           annotated == AnnotateDistance(heap[herp_data_df], loc[t].user_coords)
       IN  IF annotated.exc # "none"
           THEN /\ response' = [response EXCEPT ![t] = HandlerExcept(req[t], annotated.exc)]
                /\ pc' = [pc EXCEPT ![t] = "done"]
                /\ UNCHANGED <<heap, loc>>
           ELSE /\ heap' = [heap EXCEPT ![df] = annotated.df]
                /\ loc' = [loc EXCEPT ![t] = [herp_df |-> df] @@ loc[t]]
                /\ pc' = [pc EXCEPT ![t] = IF req[t].route = "download_herp_data"
                                           THEN "herp_export" ELSE "herp_summarize"]
                /\ UNCHANGED response
    /\ UNCHANGED <<Globals, req>>

\* lines 623-784, then the rest of index (lines 814-826) or of
\* download_herp_summary_data (lines 1021-1072)
HerpSummarize(t) ==
    /\ pc[t] = "herp_summarize"
    /\ LET herp_results == process_herpetofauna_data(heap[loc[t].herp_df],
                               heap[threat_status_df], loc[t].user_coords,
                               loc[t].radius_km)
       IN  response' = [response EXCEPT ![t] =
               IF req[t].route = "index_post"
               THEN Page(None, req[t].form.coords, loc[t].radius_km,
                         loc[t].bat_results, herp_results)
               ELSE IF "results" \notin DOMAIN herp_results
               THEN Text(404, "No herpetofauna summary data available to download.")
               ELSE Csv("herpetofauna_summary_data",
                        HerpSummaryCsv(herp_results.results))]
    /\ pc' = [pc EXCEPT ![t] = "done"]
    /\ UNCHANGED <<Globals, heap, req, loc>>

\* download_herp_data, lines 928-971
HerpExportStep(t) ==
    /\ pc[t] = "herp_export"
    /\ response' = [response EXCEPT ![t] =
                       Csv("herpetofauna_data_occurrences",
                           HerpExport(heap[loc[t].herp_df], loc[t].user_coords,
                                      loc[t].radius_km))]
    /\ pc' = [pc EXCEPT ![t] = "done"]
    /\ UNCHANGED <<Globals, heap, req, loc>>

\* A call of calculate_direction from the bearing on (lines 490-511): the
\* worker's locals hold the normalized bearing and the label returned.
CalculateDirection(t, initial_bearing) ==
    /\ pc[t] = "idle"
    /\ pc' = [pc EXCEPT ![t] = "done"]
    /\ loc' = [loc EXCEPT ![t] =
                  [initial_bearing |-> initial_bearing,
                   bearing |-> NormalizeBearing(initial_bearing),
                   direction |-> DirectionOfBearing(NormalizeBearing(initial_bearing))]]
    /\ UNCHANGED <<req, response, heap, Globals>>

\* The response is sent: the request, the handler's locals and the objects
\* only they referred to are gone, and the worker is idle again.
Finish(t) ==
    /\ pc[t] = "done"
    /\ pc' = [pc EXCEPT ![t] = "idle"]
    /\ req' = [req EXCEPT ![t] = NoRequest]
    /\ loc' = [loc EXCEPT ![t] = <<>>]
    /\ response' = [response EXCEPT ![t] = NoResponse]
    /\ heap' = [heap EXCEPT ![LocalRef(t, "bat")] = <<>>, ![LocalRef(t, "herp")] = <<>>]
    /\ UNCHANGED Globals

(***************************************************************************)
(* The loader, load_and_preprocess_data (lines 23-109), by its outcome.    *)
(***************************************************************************)
LoaderOutcomes == {"ok", "missing_files", "bat_error", "herp_error", "threat_error"}

\* the globals after line 109
Loaded(outcome, bat, herp, threat) ==
    /\ initial_data_load_error =
          (IF outcome = "ok" THEN None
           ELSE IF outcome = "missing_files" THEN "Missing file(s)"
           ELSE "An error occurred during data loading or preprocessing")
    /\ bat_data_df = (IF outcome \in {"ok", "herp_error", "threat_error"} THEN GBat ELSE None)
    /\ herp_data_df = (IF outcome \in {"ok", "threat_error"} THEN GHerp ELSE None)
    /\ threat_status_df = (IF outcome = "ok" THEN GThreat ELSE None)
    /\ heap = [r \in Refs |->
                  IF r = GBat /\ bat_data_df # None THEN bat
                  ELSE IF r = GHerp /\ herp_data_df # None THEN herp
                  ELSE IF r = GThreat /\ threat_status_df # None THEN threat
                  ELSE <<>>]

Idle ==
    /\ pc = [t \in Threads |-> "idle"]
    /\ req = [t \in Threads |-> NoRequest]
    /\ loc = [t \in Threads |-> <<>>]
    /\ response = [t \in Threads |-> NoResponse]

(***************************************************************************)
(* The datasets and requests the model draws from.                         *)
(***************************************************************************)
SeqsUpTo(U, n) == UNION {[1..k -> U] : k \in 0..n}

BatRow(species, site, date, roost) ==
    [batspecies |-> species, Latitude |-> SiteLat[site], Longitude |-> SiteLon[site],
     date |-> date, roost |-> roost]

BatSpecies == {"Both species detected", "Chalinolobus tuberculatus",
               "Mystacina tuberculata", "Unknown bat species", "No bat species detected"}

\* where and when a record was taken, and its flag: <<site, date, flag>>
Profiles == { <<1, 20180101, 0>>, <<2, 20171231, 1>>, <<3, 20231231, 1>>, <<5, 20121231, 0>> }

BatUniverse == {BatRow(sp, p[1], p[2], p[3]) : sp \in BatSpecies, p \in Profiles}

CommonName(name) ==
    IF name = "Leiopelma archeyi" THEN "Archey's frog"
    ELSE IF name = "Naultinus elegans" THEN "Elegant gecko"
    ELSE "Copper skink"

HerpRow(name, site, date, verified, type) ==
    [scientific_name |-> name, common_name |-> CommonName(name),
     Latitude |-> SiteLat[site], Longitude |-> SiteLon[site],
     date |-> date, sightingty |-> type, recordveri |-> verified]

SightingType(p) == IF p[3] = 1 THEN "Observation" ELSE "Undefined"

\* sightingty cells of the herp CSV as read_csv (line 64) reads them: a type,
\* a type followed by a space, a cell of one space, and a blank cell (NaN)
SightingCells == {"Observation", "Specimen ", " ", NaN}

\* astype(str), line 84: a missing value becomes the text "nan"
AsStr(cell) == IF cell = NaN THEN "nan" ELSE cell

\* str.replace('"', '').str.strip(), line 84, on the texts above
StripText(text) ==
    IF text = " " THEN ""
    ELSE IF text = "Specimen " THEN "Specimen"
    ELSE text

\* lines 82-87: the sightingty column after the loader
sightingty_loaded(cell) ==
    LET text == StripText(AsStr(cell))
    IN  IF text = "" THEN "Undefined" ELSE text

\* a recordveri cell left blank in the herp CSV: read_csv (line 64) reads it
\* as a missing value, and the loader leaves the column as read
BlankFlag == 0 - 1

HerpUniverse ==
    {HerpRow(HerpNames[k], p[1], p[2], p[3], SightingType(p)) :
        k \in DOMAIN HerpNames, p \in Profiles}

\* the records above and one whose recordveri cell is blank
HerpUniverseWithBlank ==
    HerpUniverse \cup {HerpRow("Naultinus elegans", 1, 20180101, BlankFlag, "Observation")}

ThreatRow(name, taxa, category, status) ==
    [Current_Species_Name |-> name, Taxa |-> taxa, Category |-> category, Status |-> status]

ThreatUniverse ==
    { ThreatRow("Leiopelma archeyi", "Amphibian", "Threatened", "Nationally Vulnerable"),
      ThreatRow("Leiopelma archeyi", "Frog", "Data Deficient", "Data Deficient"),
      ThreatRow("Naultinus elegans", "Reptile", "At Risk", "Declining"),
      ThreatRow("Naultinus elegans", "Reptile", "Threatened", "Threatened"),
      ThreatRow("Oligosoma aeneum", "Reptile", "Not Threatened", "Not Threatened"),
      ThreatRow("Oligosoma aeneum", "Amphibian", "Extinct", "Extinct") }

\* the register entries above, an entry whose taxa group is outside the
\* fixed list while its category is in it, and an entry of taxa group
\* "unknown" whose category and status are outside the fixed lists
ThreatUniverseWide ==
    ThreatUniverse \cup
        { ThreatRow("Leiopelma archeyi", "Frog", "Threatened", "Nationally Critical"),
          ThreatRow("Naultinus elegans", "unknown", "Data Deficient", "Data Deficient") }

ExampleBat ==
    << BatRow("Mystacina tuberculata", 1, 20200601, 0),
       BatRow("Both species detected", 2, 20150310, 1) >>

ExampleHerp ==
    << HerpRow("Oligosoma aeneum", 5, 20190214, 1, "Observation"),
       HerpRow("Leiopelma archeyi", 2, 20101105, 0, "Undefined"),
       HerpRow("Naultinus elegans", 1, 20160820, 1, "Observation") >>

ExampleThreat ==
    << ThreatRow("Leiopelma archeyi", "Amphibian", "Threatened", "Nationally Vulnerable"),
       ThreatRow("Naultinus elegans", "Reptile", "At Risk", "Declining") >>

Routes == {"index_post", "download_bat_data", "download_herp_data",
           "download_bat_summary_data", "download_herp_summary_data"}

CoordsText(site) == <<SiteLat[site], ",", " ", SiteLon[site]>>

Origins == {1, 2}
ValidRadii == {"1", "25", "50"}

\* well-formed queries
QueriesOf(routes) ==
    {[route |-> r, form |-> [coords |-> CoordsText(o), radius |-> <<rad>>]] :
        r \in routes, o \in Origins, rad \in ValidRadii}

\* what a client may post: any of these coordinate and radius texts, or the
\* field left out
CoordsTexts == { CoordsText(1),
                 <<"-40.3", " ", "175.75">>,
                 <<"abc", ",", "175.75">>,
                 <<"-40.3", ",", "175.75", ",", "1">> }
RadiusTexts == { <<"25">>, <<"0">>, <<"1">>, <<"50">>, <<"51">>, <<"abc">>, <<" ", "25">> }

Forms ==
    {[coords |-> c, radius |-> r] : c \in CoordsTexts, r \in RadiusTexts}
      \cup {[coords |-> c] : c \in CoordsTexts}
      \cup {[radius |-> r] : r \in RadiusTexts}
      \cup {<<>>}

Requests ==
    {[route |-> "index_get", form |-> <<>>]}
      \cup {[route |-> r, form |-> f] : r \in Routes, f \in Forms}

(***************************************************************************)
(* Specifications.                                                         *)
(***************************************************************************)
Step(t) ==
    \/ Start(t)
    \/ BatAnnotate(t)
    \/ BatSummarize(t)
    \/ BatExportStep(t)
    \/ HerpAnnotate(t)
    \/ HerpSummarize(t)
    \/ HerpExportStep(t)
    \/ Finish(t)

\* The served application: any loader outcome, any request, one worker.
Init ==
    /\ \E outcome \in LoaderOutcomes : Loaded(outcome, ExampleBat, ExampleHerp, ExampleThreat)
    /\ Idle

Next ==
    \/ \E r \in Requests : Receive(1, r)
    \/ Step(1)

Spec == Init /\ [][Next]_vars

\* The summarizers and exports over every small dataset: the loader
\* succeeded, the queries are well-formed, one worker.
InitData ==
    /\ \/ \E bat \in SeqsUpTo(BatUniverse, MaxBatRows) :
              Loaded("ok", bat, ExampleHerp, ExampleThreat)
       \/ \E herp \in SeqsUpTo(HerpUniverse, MaxHerpRows) :
              Loaded("ok", ExampleBat, herp, ExampleThreat)
       \/ \E threat \in SeqsUpTo(ThreatUniverse, MaxThreatRows) :
              Loaded("ok", ExampleBat, ExampleHerp, threat)
    /\ Idle

NextData ==
    \/ \E r \in QueriesOf({"index_post", "download_bat_data", "download_herp_data"}) :
           Receive(1, r)
    \/ Step(1)

SpecData == InitData /\ [][NextData]_vars

\* The index page over every small dataset and every small threat register.
InitIndex ==
    /\ \/ \E bat \in SeqsUpTo(BatUniverse, MaxBatRows) :
              Loaded("ok", bat, ExampleHerp, ExampleThreat)
       \/ \E herp \in SeqsUpTo(HerpUniverse, MaxHerpRows) :
              Loaded("ok", ExampleBat, herp, ExampleThreat)
       \/ \E threat \in SeqsUpTo(ThreatUniverseWide, MaxThreatRows) :
              Loaded("ok", ExampleBat, ExampleHerp, threat)
    /\ Idle

NextIndex ==
    \/ \E r \in QueriesOf({"index_post"}) : Receive(1, r)
    \/ Start(1)
    \/ BatAnnotate(1)
    \/ BatSummarize(1)
    \/ HerpAnnotate(1)
    \/ HerpSummarize(1)
    \/ Finish(1)

SpecIndex == InitIndex /\ [][NextIndex]_vars

\* The index page over the datasets that vary the dates and the distances of
\* one species' records.
BatUniverseOfDates ==
    {BatRow(sp, p[1], p[2], p[3]) :
        sp \in {"Chalinolobus tuberculatus", "Unknown bat species", "Both species detected"},
        p \in Profiles}

InitWindows ==
    /\ \/ \E bat \in SeqsUpTo(BatUniverseOfDates, MaxBatRows) :
              Loaded("ok", bat, ExampleHerp, ExampleThreat)
       \/ \E herp \in SeqsUpTo(HerpUniverse, MaxHerpRows) :
              Loaded("ok", ExampleBat, herp, ExampleThreat)
    /\ Idle

NextWindows ==
    \/ \E r \in QueriesOf({"index_post"}) : Receive(1, r)
    \/ Start(1)
    \/ BatAnnotate(1)
    \/ BatSummarize(1)
    \/ HerpAnnotate(1)
    \/ HerpSummarize(1)
    \/ Finish(1)

SpecWindows == InitWindows /\ [][NextWindows]_vars

\* The index page over herp frames loaded from every small choice of
\* sightingty cells.
HerpUniverseOfCells ==
    {HerpRow(name, p[1], p[2], p[3], sightingty_loaded(cell)) :
        name \in {"Leiopelma archeyi", "Naultinus elegans"},
        p \in {<<1, 20180101, 0>>, <<3, 20231231, 1>>},
        cell \in SightingCells}

InitCells ==
    /\ \E herp \in SeqsUpTo(HerpUniverseOfCells, MaxHerpRows) :
           Loaded("ok", ExampleBat, herp, ExampleThreat)
    /\ Idle

NextCells ==
    \/ \E r \in QueriesOf({"index_post"}) : Receive(1, r)
    \/ Start(1)
    \/ BatAnnotate(1)
    \/ BatSummarize(1)
    \/ HerpAnnotate(1)
    \/ HerpSummarize(1)
    \/ Finish(1)

SpecCells == InitCells /\ [][NextCells]_vars

\* a batspecies label outside the five of bat_species_order: the loader
\* keeps every record whose batspecies is not null (line 60)
UnlistedBatLabel == "Possible bat species"

BatUniverseWithUnlisted ==
    BatUniverse \cup {BatRow(UnlistedBatLabel, 1, 20180101, 0)}

\* The raw-occurrence downloads over every small dataset.
InitExport ==
    /\ \/ \E bat \in SeqsUpTo(BatUniverseWithUnlisted, MaxBatRows) :
              Loaded("ok", bat, ExampleHerp, ExampleThreat)
       \/ \E herp \in SeqsUpTo(HerpUniverseWithBlank, MaxHerpRows) :
              Loaded("ok", ExampleBat, herp, ExampleThreat)
    /\ Idle

NextExport ==
    \/ \E r \in QueriesOf({"download_bat_data", "download_herp_data"}) : Receive(1, r)
    \/ Start(1)
    \/ BatAnnotate(1)
    \/ BatExportStep(1)
    \/ HerpAnnotate(1)
    \/ HerpExportStep(1)
    \/ Finish(1)

SpecExport == InitExport /\ [][NextExport]_vars

\* Two workers serving well-formed queries at once (app.run, line 1084).
InitConc ==
    /\ Loaded("ok", ExampleBat, ExampleHerp, ExampleThreat)
    /\ Idle

NextConc ==
    \E t \in Threads :
        \/ \E r \in QueriesOf(Routes) : Receive(t, r)
        \/ Step(t)

SpecConc == InitConc /\ [][NextConc]_vars

\* calculate_direction over every bearing atan2 can give, to the tenth of a
\* degree.
InitDirection ==
    /\ Loaded("ok", ExampleBat, ExampleHerp, ExampleThreat)
    /\ Idle

NextDirection ==
    \/ \E initial_bearing \in InitialBearings : CalculateDirection(1, initial_bearing)
    \/ Finish(1)

SpecDirection == InitDirection /\ [][NextDirection]_vars

\* The index page over registers that hold each threat category in turn.
StyleCategories ==
    {"Threatened", "At Risk", "Not Threatened", "Non-resident Native",
     "Introduced and Naturalised", "Extinct", "unknown", "Unknown", "Data Deficient"}

StyleThreatUniverse ==
    {ThreatRow("Naultinus elegans", "Reptile", category, "Declining") :
        category \in StyleCategories}

InitStyle ==
    /\ \E threat \in {<<>>} \cup {<<row>> : row \in StyleThreatUniverse} :
           Loaded("ok", ExampleBat, ExampleHerp, threat)
    /\ Idle

NextStyle ==
    \/ \E r \in QueriesOf({"index_post"}) : Receive(1, r)
    \/ Start(1)
    \/ BatAnnotate(1)
    \/ BatSummarize(1)
    \/ HerpAnnotate(1)
    \/ HerpSummarize(1)
    \/ Finish(1)

SpecStyle == InitStyle /\ [][NextStyle]_vars

(***************************************************************************)
(* What the properties below read from a state.                            *)
(***************************************************************************)
Both == "Both species detected"
Chalinolobus == "Chalinolobus tuberculatus"
Mystacina == "Mystacina tuberculata"
UnknownBat == "Unknown bat species"

\* worker t holds the result of process_bat_data for its query
HasBatResults(t) == "bat_results" \in DOMAIN loc[t]

\* the distance of a stored record from worker t's origin, in metres
DistFrom(t, row) == geodesic(loc[t].user_coords, <<row.Latitude, row.Longitude>>)

\* the stored bat records that lie within worker t's radius
BatInRadius(t) ==
    {i \in DOMAIN heap[GBat] : DistFrom(t, heap[GBat][i]) <= 1000 * loc[t].radius_km}

\* the counts process_bat_data gives for worker t's query when record i of
\* the stored bat frame carries the label `species` instead of its own
CountsWithLabel(t, i, species) ==
    process_bat_data(
        AnnotateDistance([heap[GBat] EXCEPT ![i].batspecies = species],
                         loc[t].user_coords).df,
        loc[t].user_coords, loc[t].radius_km).counts

(***************************************************************************)
(* C1 (as amended).  Replacing one in-radius record that carries a single  *)
(* label L by an otherwise-identical record labelled "Both species         *)
(* detected" raises total_events by exactly 1 (the record counted as one   *)
(* event and now counts as two), raises chalinolobus_tuberculatus by 1     *)
(* unless L is Chalinolobus tuberculatus and raises mystacina_tuberculata  *)
(* by 1 unless L is Mystacina tuberculata; the count of L's own species is *)
(* unchanged.                                                              *)
(***************************************************************************)
C1_BothReplacesSingle ==
    \A t \in Threads : HasBatResults(t) =>
        \A i \in BatInRadius(t) :
            LET L == heap[GBat][i].batspecies
                single == loc[t].bat_results.counts
                both == CountsWithLabel(t, i, Both)
            IN  L # Both =>
                  /\ both.total_events = single.total_events + 1
                  /\ both.chalinolobus_tuberculatus =
                        single.chalinolobus_tuberculatus + (IF L = Chalinolobus THEN 0 ELSE 1)
                  /\ both.mystacina_tuberculata =
                        single.mystacina_tuberculata + (IF L = Mystacina THEN 0 ELSE 1)

\* C1 as stated: the replacement raises both species counts by 1 and
\* total_events by 2.
C1_AsStated ==
    \A t \in Threads : HasBatResults(t) =>
        \A i \in BatInRadius(t) :
            LET single == loc[t].bat_results.counts
                both == CountsWithLabel(t, i, Both)
            IN  heap[GBat][i].batspecies \in {Chalinolobus, Mystacina} =>
                  /\ both.total_events = single.total_events + 2
                  /\ both.chalinolobus_tuberculatus = single.chalinolobus_tuberculatus + 1
                  /\ both.mystacina_tuberculata = single.mystacina_tuberculata + 1

\* a query has been summarized whose radius holds a record labelled
\* Mystacina tuberculata, and relabelling it adds one event and one
\* Chalinolobus detection
C1_Witness ==
    \E t \in Threads :
        /\ HasBatResults(t)
        /\ \E i \in BatInRadius(t) :
              /\ heap[GBat][i].batspecies = Mystacina
              /\ CountsWithLabel(t, i, Both).total_events =
                    loc[t].bat_results.counts.total_events + 1
              /\ CountsWithLabel(t, i, Both).chalinolobus_tuberculatus =
                    loc[t].bat_results.counts.chalinolobus_tuberculatus + 1

(***************************************************************************)
(* C2.  For every entry point that takes a query, a radius outside [1, 50] *)
(* is rejected before any summarizer or radius filter runs: no worker is   *)
(* ever at a dataset step with radius_km < 1 or radius_km > 50.            *)
(***************************************************************************)
AtDatasetStep(t) ==
    pc[t] \in {"bat_annotate", "bat_summarize", "bat_export",
               "herp_annotate", "herp_summarize", "herp_export"}

C2_RadiusCheckedEverywhere ==
    \A t \in Threads :
        AtDatasetStep(t) => (1 <= loc[t].radius_km /\ loc[t].radius_km <= 50)

(***************************************************************************)
(* C3.  Every index POST whose coordinate text or radius text cannot be    *)
(* parsed, or whose radius is out of range, ends in an error page that     *)
(* re-displays the submitted coordinate and radius values; it never ends   *)
(* in an unhandled exception.                                              *)
(***************************************************************************)
\* the query of request r is malformed: a field is missing or unparseable,
\* or the radius is outside [1, 50]
Malformed(r) ==
    \/ ParseQuery(r.form).exc # "none"
    \/ ~(1 <= ParseQuery(r.form).radius_km /\ ParseQuery(r.form).radius_km <= 50)

C3_IndexErrorPage ==
    \A t \in Threads :
        (pc[t] = "done" /\ req[t].route = "index_post" /\ initial_data_load_error = None
           /\ Malformed(req[t]))
        => /\ response[t].kind = "page"
           /\ response[t].error # None
           /\ "coords" \in DOMAIN req[t].form =>
                 response[t].submitted_coords = req[t].form.coords
           /\ ("radius" \in DOMAIN req[t].form /\ ParseInt(req[t].form.radius).exc = "none") =>
                 response[t].submitted_radius = ParseInt(req[t].form.radius).value

(***************************************************************************)
(* C4.  Once the loader has recorded a load error (initial_data_load_error *)
(* set, or a required dataset None), no request clears it, and every       *)
(* request - index GET/POST and the four downloads - returns the           *)
(* data-unavailable error without running a summarizer or an export.       *)
(***************************************************************************)
LoadError ==
    \/ initial_data_load_error # None
    \/ bat_data_df = None \/ herp_data_df = None \/ threat_status_df = None

DataUnavailableAnswer(t) ==
    IF IsIndex(req[t].route)
    THEN response[t].kind = "page" /\ response[t].error = initial_data_load_error
            /\ response[t].bat_results = NoResults /\ response[t].herp_results = NoResults
    ELSE response[t].kind = "text" /\ response[t].status = 500

C4_LoadErrorBlocksAll ==
    /\ [][LoadError => LoadError']_vars
    /\ [](LoadError =>
            \A t \in Threads :
                /\ ~AtDatasetStep(t)
                /\ pc[t] = "done" => DataUnavailableAnswer(t))

\* the bat data was read, the herp data was not, and a bat download has been
\* answered with the data-unavailable error
C4_Witness ==
    /\ initial_data_load_error # None
    /\ bat_data_df # None
    /\ \E t \in Threads :
          /\ pc[t] = "done"
          /\ req[t].route = "download_bat_data"
          /\ ParseQuery(req[t].form).exc = "none"
          /\ response[t] = Text(500, "Error: Data not loaded. " \o initial_data_load_error)

(***************************************************************************)
(* C5.  No request changes the three global record collections: no step    *)
(* adds distance_km, direction or any other column to them, changes a      *)
(* label or flag, or reorders or removes rows; the annotation is made on a *)
(* per-request copy.                                                       *)
(***************************************************************************)
C5_GlobalsReadOnly ==
    [][/\ heap'[GBat] = heap[GBat]
       /\ heap'[GHerp] = heap[GHerp]
       /\ heap'[GThreat] = heap[GThreat]
       /\ UNCHANGED Globals]_vars

HasColumn(df, column) == \A i \in DOMAIN df : column \in DOMAIN df[i]

\* an index query has been answered with results: its copies carry
\* distance_km and the stored frames do not
C5_Witness ==
    \E t \in Threads :
        /\ pc[t] = "done"
        /\ req[t].route = "index_post"
        /\ response[t].kind = "page"
        /\ response[t].bat_results # NoResults
        /\ heap[loc[t].df] # <<>> /\ HasColumn(heap[loc[t].df], "distance_km")
        /\ heap[loc[t].herp_df] # <<>> /\ HasColumn(heap[loc[t].herp_df], "distance_km")
        /\ ~HasColumn(heap[GBat], "distance_km")
        /\ ~HasColumn(heap[GHerp], "distance_km")

(***************************************************************************)
(* C6.  When two queries are processed with their steps interleaved, each  *)
(* query's result equals the result it gives when run alone.               *)
(***************************************************************************)
\* the response to request r when its handler runs from start to end with
\* no other request in progress
Alone(r) ==
    LET e == Entry(r)
        uc == e.loc.user_coords
        radius_km == e.loc.radius_km
        bat == AnnotateDistance(heap[GBat], uc).df
        herp == AnnotateDistance(heap[GHerp], uc).df
        herp_results == process_herpetofauna_data(herp, heap[GThreat], uc, radius_km)
        uses_bat == r.route \in {"index_post", "download_bat_data",
                                 "download_bat_summary_data"}
        uses_herp == r.route \in {"index_post", "download_herp_data",
                                  "download_herp_summary_data"}
    IN  IF e.pc = "done" THEN e.response
        ELSE IF (uses_bat /\ heap[GBat] = <<>>) \/ (uses_herp /\ heap[GHerp] = <<>>)
        THEN HandlerExcept(r, "ValueError")
        ELSE IF r.route = "index_post"
        THEN Page(None, r.form.coords, radius_km,
                  process_bat_data(bat, uc, radius_km), herp_results)
        ELSE IF r.route = "download_bat_summary_data"
        THEN Csv("bat_summary_data", process_bat_data(bat, uc, radius_km).summary_table)
        ELSE IF r.route = "download_bat_data"
        THEN Csv("bat_data_occurrences", BatExport(bat, uc, radius_km))
        ELSE IF r.route = "download_herp_data"
        THEN Csv("herpetofauna_data_occurrences", HerpExport(herp, uc, radius_km))
        ELSE IF "results" \notin DOMAIN herp_results
        THEN Text(404, "No herpetofauna summary data available to download.")
        ELSE Csv("herpetofauna_summary_data", HerpSummaryCsv(herp_results.results))

C6_InterleavedAsAlone ==
    \A t \in Threads : pc[t] = "done" => response[t] = Alone(req[t])

\* worker 1 has answered an index query while worker 2, serving a query
\* with another origin, had annotated its own copy and not yet read it
C6_Witness ==
    /\ pc[1] = "done" /\ req[1].route = "index_post"
    /\ pc[2] = "bat_summarize"
    /\ loc[1].user_coords # loc[2].user_coords
    /\ heap[loc[1].df] # heap[loc[2].df]
    /\ response[1].bat_results.counts # process_bat_data(heap[loc[2].df], loc[2].user_coords,
                                                         loc[1].radius_km).counts

(***************************************************************************)
(* The record pools of the nearest-record tables, read off the stored      *)
(* frames.                                                                 *)
(***************************************************************************)
Directions == {"north", "northeast", "east", "southeast", "south", "southwest",
               "west", "northwest"}

\* start = 0 stands for the all-time pool
DateInPool(date, start) == start = 0 \/ (date >= start /\ date <= 20231231)

BatPool(species, start, roost_only) ==
    {i \in DOMAIN heap[GBat] :
        /\ heap[GBat][i].batspecies = species
        /\ DateInPool(heap[GBat][i].date, start)
        /\ roost_only => heap[GBat][i].roost = 1}

\* the six entries of a bat summary row: column, pool start, roost-only, and
\* the fallback text of the column
BatEntries ==
    { [column |-> "all_time", start |-> 0, roost_only |-> FALSE,
       fallback |-> "No records found"],
      [column |-> "past_10y", start |-> 20130101, roost_only |-> FALSE,
       fallback |-> "No records found for 2013-2023"],
      [column |-> "past_5y", start |-> 20180101, roost_only |-> FALSE,
       fallback |-> "No records found for 2018-2023"],
      [column |-> "all_time_roost", start |-> 0, roost_only |-> TRUE,
       fallback |-> "No roosts found"],
      [column |-> "past_10y_roost", start |-> 20130101, roost_only |-> TRUE,
       fallback |-> "No roosts found for 2013-2023"],
      [column |-> "past_5y_roost", start |-> 20180101, roost_only |-> TRUE,
       fallback |-> "No roosts found for 2018-2023"] }

\* the least distance from worker t's origin over the records `pool` of `df`
MinDist(t, df, pool) ==
    LET i == CHOOSE i \in pool : \A j \in pool : DistFrom(t, df[i]) <= DistFrom(t, df[j])
    IN  DistFrom(t, df[i])

\* "<distance to one decimal> km <direction>" of record i of df
EntryOf(t, df, i) ==
    FormatKm1(DistFrom(t, df[i])) \o " km "
       \o calculate_direction(loc[t].user_coords, <<df[i].Latitude, df[i].Longitude>>)

\* the entries of the records of `pool` that attain its least distance
NearestEntries(t, df, pool) ==
    {EntryOf(t, df, i) : i \in {j \in pool : DistFrom(t, df[j]) = MinDist(t, df, pool)}}

(***************************************************************************)
(* C7.  Each entry of the bat nearest-record table is computed from the    *)
(* full, un-expanded dataset independent of the radius: it reports the     *)
(* least distance over all stored records whose label is exactly the row's *)
(* species and whose date lies in the pool (2018-01-01 / 2013-01-01 to     *)
(* 2023-12-31 inclusive), records beyond the radius included.              *)
(***************************************************************************)
C7_NearestOverFullDataset ==
    \A t \in Threads : HasBatResults(t) =>
        LET table == loc[t].bat_results.summary_table
        IN  \A k \in DOMAIN table : \A e \in BatEntries :
                LET pool == BatPool(table[k].Species, e.start, e.roost_only)
                IN  pool # {} =>
                       \E d \in Directions :
                           table[k][e.column] =
                               FormatKm1(MinDist(t, heap[GBat], pool)) \o " km " \o d

\* the nearest Chalinolobus record lies beyond the radius, a dual detection
\* lies nearer than it, and the table reports the Chalinolobus record
C7_Witness ==
    \E t \in Threads :
        /\ HasBatResults(t)
        /\ LET pool == BatPool(Chalinolobus, 0, FALSE)
               row == loc[t].bat_results.summary_table[1]
           IN  /\ pool # {}
               /\ MinDist(t, heap[GBat], pool) > 1000 * loc[t].radius_km
               /\ \E j \in BatInRadius(t) : heap[GBat][j].batspecies = Both
               /\ row.all_time \in NearestEntries(t, heap[GBat], pool)

(***************************************************************************)
(* C8.  Every bat and herp nearest-record entry is the fallback text ("No  *)
(* records found" or, for roost pools, "No roosts found", followed by the  *)
(* date-range label for the two narrower pools) exactly when its pool is   *)
(* empty, and otherwise is "<distance to one decimal> km <direction>" of a *)
(* record that attains the pool's least distance; a species with records   *)
(* but no roost record shows the roost fallback in all three roost columns.*)
(***************************************************************************)
\* worker t has answered an index query with herp rows
HasHerpRows(t) ==
    /\ pc[t] = "done"
    /\ req[t].route = "index_post"
    /\ response[t].kind = "page"
    /\ response[t].herp_results # NoResults
    /\ "results" \in DOMAIN response[t].herp_results

HerpRows(t) == response[t].herp_results.results

HerpPool(species, start) ==
    {i \in DOMAIN heap[GHerp] :
        /\ heap[GHerp][i].scientific_name = species
        /\ DateInPool(heap[GHerp][i].date, start)}

HerpInRadius(t) ==
    {i \in DOMAIN heap[GHerp] : DistFrom(t, heap[GHerp][i]) <= 1000 * loc[t].radius_km}

HerpEntries ==
    { [column |-> "past_10_years", start |-> 20130101,
       fallback |-> "No records found for 2013-2023"],
      [column |-> "past_5_years", start |-> 20180101,
       fallback |-> "No records found for 2018-2023"] }

EntryIsOfPool(t, entry, df, pool, fallback) ==
    IF pool = {} THEN entry = fallback
    ELSE entry # fallback /\ entry \in NearestEntries(t, df, pool)

C8_FallbackIffPoolEmpty ==
    \A t \in Threads :
        /\ HasBatResults(t) =>
              LET table == loc[t].bat_results.summary_table
              IN  \A k \in DOMAIN table : \A e \in BatEntries :
                      EntryIsOfPool(t, table[k][e.column], heap[GBat],
                                    BatPool(table[k].Species, e.start, e.roost_only),
                                    e.fallback)
        /\ HasHerpRows(t) =>
              \A k \in DOMAIN HerpRows(t) :
                  LET row == HerpRows(t)[k]
                  IN  /\ \A e \in HerpEntries :
                             EntryIsOfPool(t, row[e.column], heap[GHerp],
                                           HerpPool(row.species, e.start), e.fallback)
                      /\ EntryIsOfPool(t, row.all_time, heap[GHerp],
                                       HerpPool(row.species, 0) \cap HerpInRadius(t),
                                       "No records found")

\* Mystacina has a record and no roost record: a distance in the all-time
\* column, the roost fallback in the three roost columns
C8_Witness ==
    \E t \in Threads :
        /\ HasBatResults(t)
        /\ BatPool(Mystacina, 0, FALSE) # {}
        /\ BatPool(Mystacina, 0, TRUE) = {}
        /\ LET row == loc[t].bat_results.summary_table[2]
           IN  /\ row.all_time \in NearestEntries(t, heap[GBat], BatPool(Mystacina, 0, FALSE))
               /\ row.all_time_roost = "No roosts found"
               /\ row.past_10y_roost = "No roosts found for 2013-2023"
               /\ row.past_5y_roost = "No roosts found for 2018-2023"

(***************************************************************************)
(* C9.  The bat summary table lists Chalinolobus tuberculatus first and    *)
(* Mystacina tuberculata second, and has a third row, "Unknown bat         *)
(* species", if and only if the count of unknown-species records within    *)
(* the radius is greater than 0; it has no other row.                      *)
(***************************************************************************)
C9_SummaryTableRows ==
    \A t \in Threads : HasBatResults(t) =>
        LET table == loc[t].bat_results.summary_table
            unknown_in_radius ==
                Cardinality({i \in BatInRadius(t) : heap[GBat][i].batspecies = UnknownBat})
        IN  /\ Len(table) \in {2, 3}
            /\ table[1].Species = Chalinolobus
            /\ table[2].Species = Mystacina
            /\ Len(table) = 3 <=> unknown_in_radius > 0
            /\ Len(table) = 3 => table[3].Species = UnknownBat
            /\ loc[t].bat_results.counts.unknown_bat_species = unknown_in_radius

\* an unknown-species record lies within the radius: the table has the
\* third row
C9_Witness ==
    \E t \in Threads :
        /\ HasBatResults(t)
        /\ \E i \in BatInRadius(t) : heap[GBat][i].batspecies = UnknownBat
        /\ Len(loc[t].bat_results.summary_table) = 3
        /\ loc[t].bat_results.summary_table[3].Species = UnknownBat

(***************************************************************************)
(* C10.  For every herp species in radius whose scientific name has no     *)
(* exact match in the threat-status table, the summary row has taxa group, *)
(* category, status and threat_status_display all equal to "unknown", and  *)
(* the herp query returns a normal result: whenever                        *)
(* process_herpetofauna_data is called with such a species in radius, the  *)
(* page carries its rows and no error.                                     *)
(***************************************************************************)
InRegister(species) ==
    \E j \in DOMAIN heap[GThreat] : heap[GThreat][j].Current_Species_Name = species

\* worker t has answered an index query
IndexAnswered(t) ==
    pc[t] = "done" /\ req[t].route = "index_post" /\ "radius_km" \in DOMAIN loc[t]

\* worker t's index query has called process_herpetofauna_data: line 813
\* follows the return of process_bat_data
HerpProcessed(t) == IndexAnswered(t) /\ HasBatResults(t)

C10_AbsentSpeciesUnknown ==
    \A t \in Threads : HerpProcessed(t) =>
        \A i \in HerpInRadius(t) :
            LET species == heap[GHerp][i].scientific_name
            IN  ~InRegister(species) =>
                  /\ response[t].kind = "page"
                  /\ response[t].error = None
                  /\ HasHerpRows(t)
                  /\ "error" \notin DOMAIN response[t].herp_results
                  /\ \E k \in DOMAIN HerpRows(t) :
                        /\ HerpRows(t)[k].species = species
                        /\ HerpRows(t)[k].taxa_group = "unknown"
                        /\ HerpRows(t)[k].category_for_sort = "unknown"
                        /\ HerpRows(t)[k].status_for_sort = "unknown"
                        /\ HerpRows(t)[k].threat_status_display = "unknown"

\* an answered query with a species of the register and a species absent
\* from it in radius
C10_Witness ==
    \E t \in Threads :
        /\ HerpProcessed(t)
        /\ HasHerpRows(t)
        /\ \E i, j \in HerpInRadius(t) :
              /\ InRegister(heap[GHerp][i].scientific_name)
              /\ ~InRegister(heap[GHerp][j].scientific_name)
        /\ \E k \in DOMAIN HerpRows(t) : HerpRows(t)[k].threat_status_display = "unknown"

(***************************************************************************)
(* What the herp properties read from the threat register.                 *)
(***************************************************************************)
\* the first register entry whose name is exactly `species`
RegisterEntry(species) ==
    heap[GThreat][CHOOSE j \in DOMAIN heap[GThreat] :
                     /\ heap[GThreat][j].Current_Species_Name = species
                     /\ \A i \in 1..(j - 1) :
                            heap[GThreat][i].Current_Species_Name # species]

\* `species` is in the register with a listed category other than "unknown"
HasRecognizedCategory(species) ==
    /\ InRegister(species)
    /\ InSeq(RegisterEntry(species).Category, category_order)
    /\ RegisterEntry(species).Category # "unknown"

(***************************************************************************)
(* C11.  In every herp result, each row of a species absent from the       *)
(* threat register appears after every row of a species that has a         *)
(* recognized (listed, non-unknown) threat category, whatever taxa group   *)
(* the register holds for the matched species.                             *)
(***************************************************************************)
C11_AbsentAfterRecognized ==
    \A t \in Threads : HasHerpRows(t) =>
        \A i, j \in DOMAIN HerpRows(t) :
            (/\ ~InRegister(HerpRows(t)[i].species)
             /\ HasRecognizedCategory(HerpRows(t)[j].species))
            => j < i

(***************************************************************************)
(* The 4-key composite of a species, read off the register: the priority   *)
(* of its taxa group, category and status in the fixed lists, then its     *)
(* scientific name.  A value outside a list ranks after every listed one.  *)
(***************************************************************************)
Priority(value, order) ==
    IF InSeq(value, order)
    THEN CHOOSE k \in DOMAIN order : order[k] = value
    ELSE Len(order) + 1

TaxaOf(species) == IF InRegister(species) THEN RegisterEntry(species).Taxa ELSE "unknown"
CategoryOf(species) == IF InRegister(species) THEN RegisterEntry(species).Category ELSE "unknown"
StatusOf(species) == IF InRegister(species) THEN RegisterEntry(species).Status ELSE "unknown"

CompositeKey(species) ==
    <<Priority(TaxaOf(species), <<"Amphibian", "Reptile", "unknown">>),
      Priority(CategoryOf(species), category_order),
      Priority(StatusOf(species), status_order),
      NameRank(species)>>

(***************************************************************************)
(* C12.  The herp species rows are returned in ascending order of the      *)
(* 4-key composite - taxa group by [Amphibian, Reptile, unknown], then     *)
(* category, then status by their fixed priority lists, then scientific    *)
(* name: of two adjacent rows the earlier is not greater than the later.   *)
(***************************************************************************)
C12_RowsInCompositeOrder ==
    \A t \in Threads : HasHerpRows(t) =>
        \A k \in 1..(Len(HerpRows(t)) - 1) :
            ~LexLess(CompositeKey(HerpRows(t)[k + 1].species),
                     CompositeKey(HerpRows(t)[k].species))

\* three rows: an amphibian, then a reptile whose name sorts before it, then
\* a species absent from the register whose name sorts before both
C12_Witness ==
    \E t \in Threads :
        /\ HasHerpRows(t)
        /\ Len(HerpRows(t)) = 3
        /\ HerpRows(t)[1].taxa_group = "Amphibian"
        /\ HerpRows(t)[2].taxa_group = "Reptile"
        /\ ~InRegister(HerpRows(t)[3].species)
        /\ NameRank(HerpRows(t)[3].species) < NameRank(HerpRows(t)[2].species)
        /\ NameRank(HerpRows(t)[2].species) < NameRank(HerpRows(t)[1].species)

(***************************************************************************)
(* C13.  A herp row whose category or status is not in the fixed priority  *)
(* list is ordered after every row with a listed value and is ranked       *)
(* together with "unknown": between such a row and an "unknown" row with   *)
(* the same earlier keys the order is decided by the following keys        *)
(* (ultimately scientific name), not by the unlisted value; and the value  *)
(* shown and used for styling stays the original text.                     *)
(***************************************************************************)
\* the priority of a value when an unlisted value ranks with "unknown", the
\* last entry of the list
PriorityWithUnknown(value, order) ==
    IF InSeq(value, order)
    THEN CHOOSE k \in DOMAIN order : order[k] = value
    ELSE Len(order)

KeyWithUnknown(species) ==
    <<Priority(TaxaOf(species), <<"Amphibian", "Reptile", "unknown">>),
      PriorityWithUnknown(CategoryOf(species), category_order),
      PriorityWithUnknown(StatusOf(species), status_order),
      NameRank(species)>>

C13_UnlistedRankedWithUnknown ==
    \A t \in Threads : HasHerpRows(t) =>
        /\ \A k \in 1..(Len(HerpRows(t)) - 1) :
               ~LexLess(KeyWithUnknown(HerpRows(t)[k + 1].species),
                        KeyWithUnknown(HerpRows(t)[k].species))
        /\ \A k \in DOMAIN HerpRows(t) :
               LET row == HerpRows(t)[k]
                   category == CategoryOf(row.species)
                   status == StatusOf(row.species)
               IN  /\ row.threat_status_display =
                          (IF category = status THEN category
                           ELSE category \o " - " \o status)
                   /\ row.category_for_sort = category

(***************************************************************************)
(* C14.  For every herp species found in the threat register,              *)
(* threat_status_display is the category alone when category equals        *)
(* status and otherwise "<category> - <status>"; when several register     *)
(* entries match the name, the first matching entry supplies taxa group,   *)
(* category and status (each held in the row as a value of its fixed       *)
(* list, a value outside the list as a missing value).                     *)
(***************************************************************************)
\* the register entries whose name is exactly `species`
Matches(species) ==
    {j \in DOMAIN heap[GThreat] : heap[GThreat][j].Current_Species_Name = species}

C14_DisplayFromFirstMatch ==
    \A t \in Threads : HasHerpRows(t) =>
        \A k \in DOMAIN HerpRows(t) :
            LET row == HerpRows(t)[k]
                first == RegisterEntry(row.species)
            IN  InRegister(row.species) =>
                  /\ first.Category = first.Status =>
                         row.threat_status_display = first.Category
                  /\ first.Category # first.Status =>
                         row.threat_status_display =
                             first.Category \o " - " \o first.Status
                  /\ row.taxa_group =
                         (IF InSeq(first.Taxa, taxa_order) THEN first.Taxa ELSE NaN)
                  /\ row.category_for_sort =
                         (IF InSeq(first.Category, category_order)
                          THEN first.Category ELSE NaN)
                  /\ row.status_for_sort =
                         (IF InSeq(first.Status, status_order) THEN first.Status ELSE NaN)

\* a species has two register entries that differ in category and status;
\* the first has category equal to status and the row shows it alone
C14_Witness ==
    \E t \in Threads :
        /\ HasHerpRows(t)
        /\ \E k \in DOMAIN HerpRows(t) :
              LET row == HerpRows(t)[k]
              IN  /\ \E i, j \in Matches(row.species) :
                        /\ i < j
                        /\ heap[GThreat][i].Category = heap[GThreat][i].Status
                        /\ heap[GThreat][j].Category # heap[GThreat][j].Status
                        /\ heap[GThreat][j].Category # heap[GThreat][i].Category
                        /\ row.threat_status_display = heap[GThreat][i].Category
                        /\ row.category_for_sort = heap[GThreat][i].Category

(***************************************************************************)
(* C15.  When no herp record lies within the radius,                       *)
(* process_herpetofauna_data returns a non-error result with the message   *)
(* "No herpetofauna records found within N km." and unique_species_count   *)
(* 0 (no error key, no results list); otherwise it returns the sorted rows *)
(* with a unique_species_count equal to the number of rows, at least 1.    *)
(***************************************************************************)
\* worker t has answered an index query with a page that carries the
\* result of process_herpetofauna_data
HasHerpResult(t) ==
    /\ IndexAnswered(t)
    /\ response[t].kind = "page"
    /\ response[t].herp_results # NoResults

C15_ZeroResultMessage ==
    \A t \in Threads : HerpProcessed(t) =>
        /\ HasHerpResult(t)
        /\ LET result == response[t].herp_results
               species == {heap[GHerp][i].scientific_name : i \in HerpInRadius(t)}
           IN  /\ response[t].error = None
               /\ "error" \notin DOMAIN result
               /\ IF HerpInRadius(t) = {}
                  THEN /\ DOMAIN result = {"message", "unique_species_count"}
                       /\ result.message = "No herpetofauna records found within "
                                               \o ToString(loc[t].radius_km) \o " km."
                       /\ result.unique_species_count = 0
                  ELSE /\ DOMAIN result = {"results", "unique_species_count"}
                       /\ result.unique_species_count = Len(result.results)
                       /\ result.unique_species_count >= 1
                       /\ {result.results[k].species : k \in DOMAIN result.results} = species
                       /\ Len(result.results) = Cardinality(species)

(***************************************************************************)
(* C16.  For a fixed dataset and origin and any radii R < R', the records  *)
(* kept by the radius filter (distance_km <= radius) for R are a subset of *)
(* those kept for R'; hence every bat count and every herp per-species     *)
(* total for R is less than or equal to the same count for R'.             *)
(***************************************************************************)
\* the radii a query may ask for that are larger than R
LargerRadii(R) == {R2 \in {ParseInt(<<text>>).value : text \in ValidRadii} : R2 > R}

\* the records of the annotated frame df that the filter keeps for radius R
Kept(df, R) == {i \in DOMAIN df : InRadius(df[i], R)}

CountNames == {"total_events", "positive_detections", "chalinolobus_tuberculatus",
               "mystacina_tuberculata", "unknown_bat_species",
               "chalinolobus_tuberculatus_roosts", "mystacina_tuberculata_roosts"}

\* the per-species total of `species` in a result of process_herpetofauna_data
HerpTotal(result, species) ==
    IF "results" \notin DOMAIN result THEN 0
    ELSE LET hits == {k \in DOMAIN result.results : result.results[k].species = species}
         IN  IF hits = {} THEN 0
             ELSE result.results[CHOOSE k \in hits : TRUE].total_observations_for_species

C16_RadiusMonotonic ==
    \A t \in Threads :
        /\ HasBatResults(t) =>
              LET df == AnnotateDistance(heap[GBat], loc[t].user_coords).df
                  R == loc[t].radius_km
              IN  \A R2 \in LargerRadii(R) :
                      /\ Kept(df, R) \subseteq Kept(df, R2)
                      /\ LET large == BatCounts(df, R2)
                         IN  \A c \in CountNames :
                                 loc[t].bat_results.counts[c] <= large[c]
        /\ HasHerpResult(t) =>
              LET df == AnnotateDistance(heap[GHerp], loc[t].user_coords).df
                  R == loc[t].radius_km
                  small == response[t].herp_results
              IN  \A R2 \in LargerRadii(R) :
                      LET large == process_herpetofauna_data(df, heap[GThreat],
                                                             loc[t].user_coords, R2)
                      IN  /\ Kept(df, R) \subseteq Kept(df, R2)
                          /\ small.unique_species_count <= large.unique_species_count
                          /\ \A k \in DOMAIN HerpNames :
                                 HerpTotal(small, HerpNames[k]) <= HerpTotal(large, HerpNames[k])

\* a query with radius 1 has been summarized, a record lies outside 1 km
\* and within 25 km, and the total for 25 km is larger
C16_Witness ==
    \E t \in Threads :
        /\ HasBatResults(t)
        /\ loc[t].radius_km = 1
        /\ LET df == AnnotateDistance(heap[GBat], loc[t].user_coords).df
           IN  /\ Kept(df, 1) # {}
               /\ Kept(df, 1) # Kept(df, 25)
               /\ loc[t].bat_results.counts.total_events < BatCounts(df, 25).total_events

(***************************************************************************)
(* C17.  The bearing-to-label mapping of calculate_direction assigns every *)
(* normalized bearing in [0, 360) exactly one of the eight compass labels, *)
(* with 45-degree sectors bounded by the odd multiples of 22.5 (lower      *)
(* bound inclusive, upper exclusive): 0 maps to "north", 22.5 to           *)
(* "northeast", [337.5, 360) to "north", and "unknown" is never returned.  *)
(***************************************************************************)
CompassLabels == <<"north", "northeast", "east", "southeast", "south", "southwest",
                   "west", "northwest">>

\* the label of the 45-degree sector that holds `bearing` (tenths of a
\* degree): sector k runs from 45k - 22.5 inclusive to 45k + 22.5 exclusive
SectorLabel(bearing) == CompassLabels[(((bearing + 225) \div 450) % 8) + 1]

\* worker t has returned from calculate_direction
DirectionReturned(t) == pc[t] = "done" /\ "direction" \in DOMAIN loc[t]

C17_EightSectors ==
    \A t \in Threads : DirectionReturned(t) =>
        /\ 0 <= loc[t].bearing /\ loc[t].bearing < 3600
        /\ loc[t].direction = SectorLabel(loc[t].bearing)
        /\ loc[t].direction # "unknown"
        /\ loc[t].bearing = 0 => loc[t].direction = "north"
        /\ loc[t].bearing = 225 => loc[t].direction = "northeast"
        /\ loc[t].bearing >= 3375 => loc[t].direction = "north"

\* the boundary bearing 22.5 has been mapped to "northeast"
C17_Witness ==
    \E t \in Threads :
        /\ DirectionReturned(t)
        /\ loc[t].bearing = 225
        /\ loc[t].direction = "northeast"

(***************************************************************************)
(* C18.  The raw-occurrence exports are sorted: bat rows by species label  *)
(* in the order [Both species detected, Chalinolobus tuberculatus,         *)
(* Mystacina tuberculata, Unknown bat species, No bat species detected]    *)
(* and then by ascending distance; herp rows by scientific name and then   *)
(* by ascending distance; every exported row has distance_km <= radius and *)
(* every in-radius record is exported exactly once with its label intact.  *)
(***************************************************************************)
\* worker t has answered the download `route` with a CSV
Exported(t, route) ==
    pc[t] = "done" /\ req[t].route = route /\ response[t].kind = "csv"

\* the place of a label in the fixed order; a value outside the five is
\* placed after them
LabelRank(label) ==
    LET order == <<"Both species detected", "Chalinolobus tuberculatus",
                   "Mystacina tuberculata", "Unknown bat species",
                   "No bat species detected">>
    IN  IF \E k \in 1..5 : order[k] = label
        THEN CHOOSE k \in 1..5 : order[k] = label
        ELSE 6

\* the exported row `row` is the stored record `r` seen from worker t's origin
IsBatRowOf(t, row, r) ==
    /\ row.batspecies = r.batspecies
    /\ row.date = r.date
    /\ row.Latitude = r.Latitude /\ row.Longitude = r.Longitude
    /\ row.distance_km = DistFrom(t, r)

IsHerpRowOf(t, row, r) ==
    /\ row.scientific_name = r.scientific_name
    /\ row.common_name = r.common_name
    /\ row.sightingty = r.sightingty
    /\ row.date = r.date
    /\ row.Latitude = r.Latitude /\ row.Longitude = r.Longitude
    /\ row.distance_km = DistFrom(t, r)

C18_ExportsSortedAndComplete ==
    \A t \in Threads :
        /\ Exported(t, "download_bat_data") =>
              LET rows == response[t].rows
                  df == heap[GBat]
              IN  /\ \A k \in 1..(Len(rows) - 1) :
                         \/ LabelRank(rows[k].batspecies) < LabelRank(rows[k + 1].batspecies)
                         \/ /\ rows[k].batspecies = rows[k + 1].batspecies
                            /\ rows[k].distance_km <= rows[k + 1].distance_km
                  /\ \A k \in DOMAIN rows : rows[k].distance_km <= 1000 * loc[t].radius_km
                  /\ Len(rows) = Cardinality(BatInRadius(t))
                  /\ \A i \in BatInRadius(t) :
                         Cardinality({k \in DOMAIN rows : IsBatRowOf(t, rows[k], df[i])})
                            = Cardinality({j \in BatInRadius(t) : df[j] = df[i]})
        /\ Exported(t, "download_herp_data") =>
              LET rows == response[t].rows
                  df == heap[GHerp]
              IN  /\ \A k \in 1..(Len(rows) - 1) :
                         \/ NameRank(rows[k].scientific_name)
                                < NameRank(rows[k + 1].scientific_name)
                         \/ /\ rows[k].scientific_name = rows[k + 1].scientific_name
                            /\ rows[k].distance_km <= rows[k + 1].distance_km
                  /\ \A k \in DOMAIN rows : rows[k].distance_km <= 1000 * loc[t].radius_km
                  /\ Len(rows) = Cardinality(HerpInRadius(t))
                  /\ \A i \in HerpInRadius(t) :
                         Cardinality({k \in DOMAIN rows : IsHerpRowOf(t, rows[k], df[i])})
                            = Cardinality({j \in HerpInRadius(t) : df[j] = df[i]})

(***************************************************************************)
(* C19.  In every row of the bat and herp raw-occurrence exports the flag  *)
(* column (bat roost, herp recordveri) holds exactly the literal string    *)
(* "True" or "False", and it is "True" exactly for the records that are    *)
(* roosts (roost = 1) or that are verified (recordveri = 1).               *)
(***************************************************************************)
C19_FlagsTrueOrFalse ==
    \A t \in Threads :
        /\ Exported(t, "download_bat_data") =>
              \A k \in DOMAIN response[t].rows :
                  LET row == response[t].rows[k]
                  IN  /\ row.roost \in {"True", "False"}
                      /\ \E i \in BatInRadius(t) :
                             /\ IsBatRowOf(t, row, heap[GBat][i])
                             /\ row.roost = "True" <=> heap[GBat][i].roost = 1
        /\ Exported(t, "download_herp_data") =>
              \A k \in DOMAIN response[t].rows :
                  LET row == response[t].rows[k]
                  IN  /\ row.recordveri \in {"True", "False"}
                      /\ \E i \in HerpInRadius(t) :
                             /\ IsHerpRowOf(t, row, heap[GHerp][i])
                             /\ row.recordveri = "True" <=> heap[GHerp][i].recordveri = 1

(***************************************************************************)
(* C20.  In the herp display rows the style tag of the threat-status cell  *)
(* is derived only from the row's threat category: rows whose category is  *)
(* "Introduced and Naturalised", unknown, or unmatched by the style table  *)
(* get no highlight (background) class, while Threatened, At Risk, Not     *)
(* Threatened and Non-resident Native each get their own class.            *)
(***************************************************************************)
\* the classes that set a background colour, lines 290-293
HighlightClasses ==
    {"threatened-bg", "at-risk-bg", "not-threatened-bg", "non-resident-native-bg"}

HighlightOf(category) ==
    IF category = "Threatened" THEN "threatened-bg"
    ELSE IF category = "At Risk" THEN "at-risk-bg"
    ELSE IF category = "Not Threatened" THEN "not-threatened-bg"
    ELSE "non-resident-native-bg"

AttrOfClass(class) == " class=\"threat-status-cell " \o class \o "\""

C20_StyleFromCategory ==
    \A t \in Threads : HasHerpRows(t) =>
        /\ DOMAIN response[t].threat_status_cells = DOMAIN HerpRows(t)
        /\ \A k \in DOMAIN HerpRows(t) :
               LET category == CategoryOf(HerpRows(t)[k].species)
                   attr == response[t].threat_status_cells[k]
               IN  /\ category \in {"Threatened", "At Risk", "Not Threatened",
                                     "Non-resident Native"}
                          => attr = AttrOfClass(HighlightOf(category))
                   /\ category \notin {"Threatened", "At Risk", "Not Threatened",
                                        "Non-resident Native"}
                          => \A class \in HighlightClasses : attr # AttrOfClass(class)
                   /\ category = "Introduced and Naturalised"
                          => attr = " class=\"threat-status-cell\""

\* a page whose rows hold a species of category At Risk, shown as "At Risk -
\* Declining" with the At Risk class, and a species absent from the register
\* without a highlight class
C20_Witness ==
    \E t \in Threads :
        /\ HasHerpRows(t)
        /\ \E k, m \in DOMAIN HerpRows(t) :
              /\ CategoryOf(HerpRows(t)[k].species) = "At Risk"
              /\ HerpRows(t)[k].threat_status_display = "At Risk - Declining"
              /\ response[t].threat_status_cells[k] = AttrOfClass("at-risk-bg")
              /\ ~InRegister(HerpRows(t)[m].species)
              /\ \A class \in HighlightClasses :
                     response[t].threat_status_cells[m] # AttrOfClass(class)

(***************************************************************************)
(* C21.  In each herp summary row the most recent sighting is the latest   *)
(* date over the species' records inside the radius only, while the        *)
(* 2013-2023 and 2018-2023 nearest-record entries are the least distance   *)
(* over the species' records in the full dataset filtered by date only, so *)
(* they may report a record farther away than the radius.                  *)
(***************************************************************************)
\* the latest date among the records `pool` of the stored herp frame
LatestDate(pool) ==
    heap[GHerp][CHOOSE i \in pool : \A j \in pool :
                    heap[GHerp][j].date <= heap[GHerp][i].date].date

C21_RecentInRadiusWindowsOverAll ==
    \A t \in Threads : HasHerpRows(t) =>
        \A k \in DOMAIN HerpRows(t) :
            LET row == HerpRows(t)[k]
                inside == HerpPool(row.species, 0) \cap HerpInRadius(t)
            IN  /\ inside # {}
                /\ row.most_recent_sighting = FormatDate(LatestDate(inside))
                /\ \A e \in HerpEntries :
                       LET pool == HerpPool(row.species, e.start)
                       IN  pool # {} =>
                              \E d \in Directions :
                                  row[e.column] =
                                      FormatKm1(MinDist(t, heap[GHerp], pool)) \o " km " \o d

\* a species has an older record within the radius and a later one beyond
\* it: the most recent sighting is the older date, and the 2018-2023 entry
\* reports the record beyond the radius
C21_Witness ==
    \E t \in Threads :
        /\ HasHerpRows(t)
        /\ \E k \in DOMAIN HerpRows(t) :
              LET row == HerpRows(t)[k]
                  all == HerpPool(row.species, 0)
                  inside == all \cap HerpInRadius(t)
                  recent == HerpPool(row.species, 20180101)
              IN  /\ LatestDate(inside) < LatestDate(all)
                  /\ row.most_recent_sighting = FormatDate(LatestDate(inside))
                  /\ recent # {}
                  /\ MinDist(t, heap[GHerp], recent) > 1000 * loc[t].radius_km
                  /\ row.past_5_years \in NearestEntries(t, heap[GHerp], recent)

(***************************************************************************)
(* C22.  The bat counts are all taken on the expanded, radius-restricted   *)
(* view: total_events counts every in-radius record once and every         *)
(* in-radius "Both species detected" record once more, positive_detections *)
(* is total_events less the in-radius "No bat species detected" records,   *)
(* each roost sub-count counts only the records of that species with       *)
(* roost = 1 and never exceeds the species count, and positive_detections  *)
(* is the sum of the three species counts when every label is one of the   *)
(* five known labels.                                                      *)
(***************************************************************************)
NoBat == "No bat species detected"

\* the number of stored bat records within worker t's radius whose label is
\* in `labels` and whose roost flag is in `flags`
InRadiusCount(t, labels, flags) ==
    Cardinality({i \in BatInRadius(t) : /\ heap[GBat][i].batspecies \in labels
                                        /\ heap[GBat][i].roost \in flags})

C22_CountsOnExpandedView ==
    \A t \in Threads : HasBatResults(t) =>
        LET c == loc[t].bat_results.counts
            any == {0, 1}
        IN  /\ c.total_events =
                  InRadiusCount(t, BatSpecies, any) + InRadiusCount(t, {Both}, any)
            /\ c.positive_detections =
                  c.total_events - InRadiusCount(t, {NoBat}, any)
            /\ c.chalinolobus_tuberculatus = InRadiusCount(t, {Chalinolobus, Both}, any)
            /\ c.mystacina_tuberculata = InRadiusCount(t, {Mystacina, Both}, any)
            /\ c.unknown_bat_species = InRadiusCount(t, {UnknownBat}, any)
            /\ c.chalinolobus_tuberculatus_roosts =
                  InRadiusCount(t, {Chalinolobus, Both}, {1})
            /\ c.mystacina_tuberculata_roosts =
                  InRadiusCount(t, {Mystacina, Both}, {1})
            /\ c.chalinolobus_tuberculatus_roosts <= c.chalinolobus_tuberculatus
            /\ c.mystacina_tuberculata_roosts <= c.mystacina_tuberculata
            /\ (\A i \in DOMAIN heap[GBat] : heap[GBat][i].batspecies \in BatSpecies) =>
                  c.positive_detections =
                      c.chalinolobus_tuberculatus + c.mystacina_tuberculata
                          + c.unknown_bat_species

\* the radius holds a roost record of one species only and a record with no
\* detection: the other species' roost count is 0 and the positive
\* detections are fewer than the events
C22_Witness ==
    \E t \in Threads :
        /\ HasBatResults(t)
        /\ InRadiusCount(t, {NoBat}, {0, 1}) > 0
        /\ InRadiusCount(t, {Chalinolobus}, {1}) > 0
        /\ loc[t].bat_results.counts.mystacina_tuberculata_roosts = 0
        /\ loc[t].bat_results.counts.chalinolobus_tuberculatus_roosts > 0
        /\ loc[t].bat_results.counts.positive_detections <
               loc[t].bat_results.counts.total_events

(***************************************************************************)
(* C23.  For every bat query result, a radius-scoped count of a species    *)
(* (chalinolobus_tuberculatus or mystacina_tuberculata) greater than 0     *)
(* means that species' all-time nearest record entry is a distance, of a   *)
(* record within the radius, and a roost sub-count greater than 0 means    *)
(* the same of its all-time nearest roost entry; also when the only        *)
(* in-radius records of the species are labelled "Both species detected".  *)
(***************************************************************************)
\* the distance entries of the stored bat records within worker t's radius
InRadiusEntries(t) ==
    {FormatKm1(DistFrom(t, heap[GBat][i])) \o " km " \o d :
        i \in BatInRadius(t), d \in Directions}

\* the summary row of `species` in worker t's bat result
BatRowOf(t, species) ==
    LET table == loc[t].bat_results.summary_table
    IN  table[CHOOSE k \in DOMAIN table : table[k].Species = species]

C23_CountedSpeciesHasNearestInRadius ==
    \A t \in Threads : HasBatResults(t) =>
        LET c == loc[t].bat_results.counts
        IN  /\ c.chalinolobus_tuberculatus > 0 =>
                  BatRowOf(t, Chalinolobus).all_time \in InRadiusEntries(t)
            /\ c.mystacina_tuberculata > 0 =>
                  BatRowOf(t, Mystacina).all_time \in InRadiusEntries(t)
            /\ c.chalinolobus_tuberculatus_roosts > 0 =>
                  BatRowOf(t, Chalinolobus).all_time_roost \in InRadiusEntries(t)
            /\ c.mystacina_tuberculata_roosts > 0 =>
                  BatRowOf(t, Mystacina).all_time_roost \in InRadiusEntries(t)

(***************************************************************************)
(* C24.  In every bat and herp summary row the time windows are nested:    *)
(* the all-time nearest distance <= the 2013-2023 nearest distance <= the  *)
(* 2018-2023 nearest distance whenever these exist, and when the 2013-2023 *)
(* entry is a "No records/roosts found" fallback so is the 2018-2023       *)
(* entry.  For herp rows the all-time entry, taken from the records within *)
(* the radius, is the least distance of the species over the full dataset. *)
(***************************************************************************)
\* the distances, in tenths of a kilometre, of the records of df that the
\* entry can be reporting; empty for a fallback text
ShownTenths(t, df, entry) ==
    {(DistFrom(t, df[i]) + 50) \div 100 :
        i \in {j \in DOMAIN df : entry = EntryOf(t, df, j)}}

\* `wide` and `narrow` are what the entries of a window and of a window
\* inside it show
Nested(wide, narrow) ==
    narrow # {} => (wide # {} /\ \A a \in wide, b \in narrow : a <= b)

C24_WindowsNested ==
    \A t \in Threads :
        /\ HasBatResults(t) =>
              LET table == loc[t].bat_results.summary_table
              IN  \A k \in DOMAIN table :
                      LET all == ShownTenths(t, heap[GBat], table[k].all_time)
                          ten == ShownTenths(t, heap[GBat], table[k].past_10y)
                          five == ShownTenths(t, heap[GBat], table[k].past_5y)
                          all_r == ShownTenths(t, heap[GBat], table[k].all_time_roost)
                          ten_r == ShownTenths(t, heap[GBat], table[k].past_10y_roost)
                          five_r == ShownTenths(t, heap[GBat], table[k].past_5y_roost)
                      IN  /\ Nested(all, ten) /\ Nested(ten, five)
                          /\ Nested(all_r, ten_r) /\ Nested(ten_r, five_r)
                          /\ all = {} <=> table[k].all_time = "No records found"
                          /\ ten = {} <=>
                                 table[k].past_10y = "No records found for 2013-2023"
                          /\ five = {} <=>
                                 table[k].past_5y = "No records found for 2018-2023"
                          /\ all_r = {} <=> table[k].all_time_roost = "No roosts found"
                          /\ ten_r = {} <=>
                                 table[k].past_10y_roost = "No roosts found for 2013-2023"
                          /\ five_r = {} <=>
                                 table[k].past_5y_roost = "No roosts found for 2018-2023"
        /\ HasHerpRows(t) =>
              \A k \in DOMAIN HerpRows(t) :
                  LET row == HerpRows(t)[k]
                      all == ShownTenths(t, heap[GHerp], row.all_time)
                      ten == ShownTenths(t, heap[GHerp], row.past_10_years)
                      five == ShownTenths(t, heap[GHerp], row.past_5_years)
                  IN  /\ row.all_time \in
                             NearestEntries(t, heap[GHerp], HerpPool(row.species, 0))
                      /\ all # {}
                      /\ Nested(all, ten) /\ Nested(ten, five)
                      /\ ten = {} <=>
                             row.past_10_years = "No records found for 2013-2023"
                      /\ five = {} <=>
                             row.past_5_years = "No records found for 2018-2023"

\* the least of a non-empty set of numbers
Least(S) == CHOOSE a \in S : \A b \in S : a <= b

\* a herp row whose 2013-2023 record is farther than its all-time record and
\* whose 2018-2023 entry is the fallback, beside a bat row whose three
\* nearest-record entries are distances
C24_Witness ==
    \E t \in Threads :
        /\ HasBatResults(t)
        /\ HasHerpRows(t)
        /\ \E k \in DOMAIN loc[t].bat_results.summary_table :
              LET row == loc[t].bat_results.summary_table[k]
              IN  /\ ShownTenths(t, heap[GBat], row.past_5y) # {}
                  /\ ShownTenths(t, heap[GBat], row.past_10y) # {}
                  /\ ShownTenths(t, heap[GBat], row.all_time) # {}
        /\ \E k \in DOMAIN HerpRows(t) :
              LET row == HerpRows(t)[k]
              IN  /\ ShownTenths(t, heap[GHerp], row.past_10_years) # {}
                  /\ Least(ShownTenths(t, heap[GHerp], row.all_time)) <
                         Least(ShownTenths(t, heap[GHerp], row.past_10_years))
                  /\ row.past_5_years = "No records found for 2018-2023"

(***************************************************************************)
(* C25.  For the same origin and radius the bat raw-occurrence export      *)
(* holds one row per stored in-radius record, a "Both species detected"    *)
(* record staying a single row with that label, so the summary's           *)
(* total_events is the number of export rows plus the number of in-radius  *)
(* "Both species detected" records; the two differ exactly when such a     *)
(* record is in radius.                                                    *)
(***************************************************************************)
\* the counts the index page gives for the origin and radius of worker t's
\* download
SummaryCountsFor(t) ==
    process_bat_data(AnnotateDistance(heap[GBat], loc[t].user_coords).df,
                     loc[t].user_coords, loc[t].radius_km).counts

C25_TotalEventsVersusExportRows ==
    \A t \in Threads :
        (Exported(t, "download_bat_data") /\ ToString(loc[t].radius_km) \in ValidRadii) =>
            LET rows == response[t].rows
                both_rows == {k \in DOMAIN rows : rows[k].batspecies = Both}
                both_in_radius == InRadiusCount(t, {Both}, {0, 1})
            IN  /\ Len(rows) = Cardinality(BatInRadius(t))
                /\ Cardinality(both_rows) = both_in_radius
                /\ SummaryCountsFor(t).total_events = Len(rows) + both_in_radius
                /\ (SummaryCountsFor(t).total_events # Len(rows)) <=> (both_in_radius > 0)

\* the radius holds a "Both species detected" record and another record:
\* two export rows, three events
C25_Witness ==
    \E t \in Threads :
        /\ Exported(t, "download_bat_data")
        /\ ToString(loc[t].radius_km) \in ValidRadii
        /\ Len(response[t].rows) = 2
        /\ response[t].rows[1].batspecies = Both
        /\ response[t].rows[2].batspecies # Both
        /\ SummaryCountsFor(t).total_events = 3

(***************************************************************************)
(* C26.  In every non-empty herp result there is exactly one row per       *)
(* distinct scientific name among the in-radius records, the per-species   *)
(* total observation counts sum to the number of in-radius records, and    *)
(* each species' observation-type tally counts every one of its in-radius  *)
(* records, those with a missing type under "Undefined".                   *)
(***************************************************************************)
\* The loaded type "nan" marks a record whose cell was missing: read_csv
\* reads a cell holding the text nan as missing too.
TypeWithUndefined(type) == IF type = "nan" THEN "Undefined" ELSE type

\* the in-radius records of `species`, in stored order, missing types named
\* "Undefined"
SpeciesInRadiusWithUndefined(t, species) ==
    LET df == heap[GHerp]
        idx == {i \in HerpInRadius(t) : df[i].scientific_name = species}
        Keep(r) == r.k \in idx
        kept == SelectSeq([i \in DOMAIN df |-> [k |-> i]], Keep)
    IN  [n \in DOMAIN kept |->
            [sightingty |-> TypeWithUndefined(df[kept[n].k].sightingty)]]

RECURSIVE SumTotals(_)
SumTotals(rows) ==
    IF rows = <<>> THEN 0
    ELSE rows[1].total_observations_for_species + SumTotals(Tail(rows))

C26_OneRowPerSpeciesTalliesComplete ==
    \A t \in Threads : HasHerpRows(t) =>
        LET rows == HerpRows(t)
            names == {heap[GHerp][i].scientific_name : i \in HerpInRadius(t)}
        IN  /\ Len(rows) = Cardinality(names)
            /\ {rows[k].species : k \in DOMAIN rows} = names
            /\ SumTotals(rows) = Cardinality(HerpInRadius(t))
            /\ \A k \in DOMAIN rows :
                   LET expected == value_counts(SpeciesInRadiusWithUndefined(t, rows[k].species))
                   IN  /\ rows[k].total_observations_for_species =
                              Len(SpeciesInRadiusWithUndefined(t, rows[k].species))
                       /\ rows[k].observation_type_csv_summary = JoinTypes(expected)

====
